---- MODULE Spec2Model ----
(***************************************************************************)
(* A model of the Dorpsgek move generator: the board representation       *)
(* (Piecemask, Piecelist, PieceIndexArray, BitlistArray), the incremental  *)
(* attack-set protocol of BoardData, and Board's make / generate.          *)
(***************************************************************************)
EXTENDS Integers, Sequences, FiniteSets, TLC

\* Option::None of Option<Square> and Option<PieceIndex>.
None == 0 - 1
\* Option::None of Option<Direction> and Option<Piece>.
NoDir == "NoDir"
NoPiece == "NoPiece"

Squares == 0..63
PieceIndices == 0..31

White == "White"
Black == "Black"

\* impl Not for Colour
OtherColour(c) == IF c = White THEN Black ELSE White

\* enum Piece, in declaration order (piece as usize is the discriminant).
PieceTypes == <<"Pawn", "Knight", "Bishop", "Rook", "Queen", "King">>

PieceOrdinal(p) == CHOOSE i \in 1..6 : PieceTypes[i] = p

CompassDirections ==
  {"North", "NorthEast", "East", "SouthEast", "South", "SouthWest", "West", "NorthWest"}

KnightDirections ==
  {"NorthNorthEast", "EastNorthEast", "EastSouthEast", "SouthSouthEast",
   "SouthSouthWest", "WestSouthWest", "WestNorthWest", "NorthNorthWest"}

AllDirections == CompassDirections \cup KnightDirections

\* Direction::to_16x8
to_16x8(dir) ==
  CASE dir = "North" -> 16
    [] dir = "NorthEast" -> 17
    [] dir = "East" -> 1
    [] dir = "SouthEast" -> 0 - 15
    [] dir = "South" -> 0 - 16
    [] dir = "SouthWest" -> 0 - 17
    [] dir = "West" -> 0 - 1
    [] dir = "NorthWest" -> 15
    [] dir = "NorthNorthEast" -> 33
    [] dir = "EastNorthEast" -> 18
    [] dir = "EastSouthEast" -> 0 - 14
    [] dir = "SouthSouthEast" -> 0 - 31
    [] dir = "SouthSouthWest" -> 0 - 33
    [] dir = "WestSouthWest" -> 0 - 18
    [] dir = "WestNorthWest" -> 14
    [] dir = "NorthNorthWest" -> 31

\* Direction::to_8x8
to_8x8(dir) ==
  CASE dir = "North" -> 8
    [] dir = "NorthEast" -> 9
    [] dir = "East" -> 1
    [] dir = "SouthEast" -> 0 - 7
    [] dir = "South" -> 0 - 8
    [] dir = "SouthWest" -> 0 - 9
    [] dir = "West" -> 0 - 1
    [] dir = "NorthWest" -> 7
    [] dir = "NorthNorthEast" -> 17
    [] dir = "EastNorthEast" -> 10
    [] dir = "EastSouthEast" -> 0 - 6
    [] dir = "SouthSouthEast" -> 0 - 15
    [] dir = "SouthSouthWest" -> 0 - 17
    [] dir = "WestSouthWest" -> 0 - 10
    [] dir = "WestNorthWest" -> 6
    [] dir = "NorthNorthWest" -> 15

\* Direction::opposite
opposite(dir) ==
  CASE dir = "North" -> "South"
    [] dir = "NorthEast" -> "SouthWest"
    [] dir = "East" -> "West"
    [] dir = "SouthEast" -> "NorthWest"
    [] dir = "South" -> "North"
    [] dir = "SouthWest" -> "NorthEast"
    [] dir = "West" -> "East"
    [] dir = "NorthWest" -> "SouthEast"
    [] dir = "NorthNorthEast" -> "SouthSouthWest"
    [] dir = "EastNorthEast" -> "WestSouthWest"
    [] dir = "EastSouthEast" -> "WestNorthWest"
    [] dir = "SouthSouthEast" -> "NorthNorthWest"
    [] dir = "SouthSouthWest" -> "NorthNorthEast"
    [] dir = "WestSouthWest" -> "EastNorthEast"
    [] dir = "WestNorthWest" -> "EastSouthEast"
    [] dir = "NorthNorthWest" -> "SouthSouthEast"

\* Direction::diagonal
diagonal(dir) == dir \in {"NorthEast", "SouthEast", "SouthWest", "NorthWest"}

\* Direction::orthogonal
orthogonal(dir) == dir \in {"North", "East", "West", "South"}

\* The test (x & 0x88) == 0 on an i16 x: bits 3 and 7 of the two's complement
\* representation are both clear.
OnBoard0x88(x) == ((x % 256) \div 128 = 0) /\ ((x % 16) \div 8 = 0)

\* A travel that tests the 8x8 sum against the board instead of the 16x8 sum.
travel_8x8Only(square, direction) ==
  LET square_8x8 == square + to_8x8(direction)
  IN IF square_8x8 \in 0..63 THEN square_8x8 ELSE None

\* Square::travel: the 16x8 sum decides, the 8x8 sum is returned.
travel(square, direction) ==
  LET square_8x8 == square + to_8x8(direction)
      square_16x8 == (square + 8 * (square \div 8)) + to_16x8(direction)
  IN IF OnBoard0x88(square_16x8) THEN square_8x8 ELSE None

\* Square::north, Square::east, Square::south, Square::west
north(square) == travel(square, "North")
east(square) == travel(square, "East")
south(square) == travel(square, "South")
west(square) == travel(square, "West")

\* Square::relative_north / Square::relative_south
relative_north(square, colour) ==
  IF colour = White THEN north(square) ELSE south(square)

relative_south(square, colour) ==
  IF colour = White THEN south(square) ELSE north(square)

\* Rank::from(Square), File::from(Square), as the numbers 0..7
RankOf(square) == square \div 8
FileOf(square) == square % 8

\* Rank::is_relative_fourth / Rank::is_relative_eighth
is_relative_fourth(rank, colour) == IF colour = White THEN rank = 3 ELSE rank = 4
is_relative_eighth(rank, colour) == IF colour = White THEN rank = 7 ELSE rank = 0

\* Square::from_rank_file
from_rank_file(rank, file) == 8 * rank + file

DIRECTION_TABLE ==
  <<
    "SouthWest", NoDir, NoDir, NoDir, NoDir, NoDir, NoDir, "South",
    NoDir, NoDir, NoDir, NoDir, NoDir, NoDir, "SouthEast", NoDir,
    NoDir, "SouthWest", NoDir, NoDir, NoDir, NoDir, NoDir, "South",
    NoDir, NoDir, NoDir, NoDir, NoDir, "SouthEast", NoDir, NoDir,
    NoDir, NoDir, "SouthWest", NoDir, NoDir, NoDir, NoDir, "South",
    NoDir, NoDir, NoDir, NoDir, "SouthEast", NoDir, NoDir, NoDir,
    NoDir, NoDir, NoDir, "SouthWest", NoDir, NoDir, NoDir, "South",
    NoDir, NoDir, NoDir, "SouthEast", NoDir, NoDir, NoDir, NoDir,
    NoDir, NoDir, NoDir, NoDir, "SouthWest", NoDir, NoDir, "South",
    NoDir, NoDir, "SouthEast", NoDir, NoDir, NoDir, NoDir, NoDir,
    NoDir, NoDir, NoDir, NoDir, NoDir, "SouthWest", NoDir, "South",
    NoDir, "SouthEast", NoDir, NoDir, NoDir, NoDir, NoDir, NoDir,
    NoDir, NoDir, NoDir, NoDir, NoDir, NoDir, "SouthWest", "South",
    "SouthEast", NoDir, NoDir, NoDir, NoDir, NoDir, NoDir, NoDir,
    "West", "West", "West", "West", "West", "West", "West", NoDir,
    "East", "East", "East", "East", "East", "East", "East", NoDir,
    NoDir, NoDir, NoDir, NoDir, NoDir, NoDir, "NorthWest", "North",
    "NorthEast", NoDir, NoDir, NoDir, NoDir, NoDir, NoDir, NoDir,
    NoDir, NoDir, NoDir, NoDir, NoDir, "NorthWest", NoDir, "North",
    NoDir, "NorthEast", NoDir, NoDir, NoDir, NoDir, NoDir, NoDir,
    NoDir, NoDir, NoDir, NoDir, "NorthWest", NoDir, NoDir, "North",
    NoDir, NoDir, "NorthEast", NoDir, NoDir, NoDir, NoDir, NoDir,
    NoDir, NoDir, NoDir, "NorthWest", NoDir, NoDir, NoDir, "North",
    NoDir, NoDir, NoDir, "NorthEast", NoDir, NoDir, NoDir, NoDir,
    NoDir, NoDir, "NorthWest", NoDir, NoDir, NoDir, NoDir, "North",
    NoDir, NoDir, NoDir, NoDir, "NorthEast", NoDir, NoDir, NoDir,
    NoDir, "NorthWest", NoDir, NoDir, NoDir, NoDir, NoDir, "North",
    NoDir, NoDir, NoDir, NoDir, NoDir, "NorthEast", NoDir, NoDir,
    "NorthWest", NoDir, NoDir, NoDir, NoDir, NoDir, NoDir, "North",
    NoDir, NoDir, NoDir, NoDir, NoDir, NoDir, "NorthEast", NoDir
  >>

\* A direction that looks the difference of the 8x8 squares up, without the
\* padding between the ranks.
direction_Unpadded(from, dest) ==
  LET to_16x12(sq) == 8 * (sq \div 8) + (sq % 8) + 36
      i == (to_16x12(dest) - to_16x12(from) + 119) % 256
  IN DIRECTION_TABLE[i + 1]

\* Square::direction: the table lookup at dest - from + 119 in 16x12 coordinates
\* (u8 arithmetic, wrapping).
direction(from, dest) ==
  LET to_16x12(sq) == 16 * (sq \div 8) + (sq % 8) + 36
      i == (to_16x12(dest) - to_16x12(from) + 119) % 256
  IN DIRECTION_TABLE[i + 1]

\* RayIter: the squares met by repeated travel in one direction, nearest first.
RECURSIVE ray_attacks(_, _)
ray_attacks(square, dir) ==
  LET next == travel(square, dir)
  IN IF next = None THEN <<>> ELSE <<next>> \o ray_attacks(next, dir)

\* PawnIter: east then west of the relative north square.
pawn_attacks(square, colour) ==
  LET rn == IF colour = White THEN north(square) ELSE south(square)
      e == IF rn = None THEN None ELSE east(rn)
      w == IF rn = None THEN None ELSE west(rn)
  IN (IF e = None THEN <<>> ELSE <<e>>) \o (IF w = None THEN <<>> ELSE <<w>>)

\* KingIter: N, NE, E, SE, S, SW, W, NW, skipping the off-board steps.
KingIterOrder ==
  <<"North", "NorthEast", "East", "SouthEast", "South", "SouthWest", "West", "NorthWest">>

RECURSIVE TravelEach(_, _, _)
TravelEach(square, dirs, i) ==
  IF i > Len(dirs) THEN <<>>
  ELSE LET t == travel(square, dirs[i])
       IN (IF t = None THEN <<>> ELSE <<t>>) \o TravelEach(square, dirs, i + 1)

king_attacks(square) == TravelEach(square, KingIterOrder, 1)

(***************************************************************************)
(* Bitlist: a set of piece indices (a 32-bit mask in the source).          *)
(***************************************************************************)

\* Bitlist::white / Bitlist::black / Bitlist::mask_from_colour
mask_from_colour(colour) == IF colour = White THEN 0..15 ELSE 16..31

\* impl From<PieceIndex> for Colour
ColourOf(piece_index) == IF piece_index <= 15 THEN White ELSE Black

\* A peek that gives the highest set bit.
peek_Highest(bits) ==
  IF bits = {} THEN None ELSE CHOOSE b \in bits : \A c \in bits : b >= c

\* Bitlist::peek: the lowest set bit, if any.
peek(bits) ==
  IF bits = {} THEN None ELSE CHOOSE b \in bits : \A c \in bits : b <= c

\* BitlistIter: repeated pop, lowest bit first.
RECURSIVE BitlistIter(_)
BitlistIter(bits) ==
  IF bits = {} THEN <<>>
  ELSE LET b == peek(bits) IN <<b>> \o BitlistIter(bits \ {b})

(***************************************************************************)
(* Piecemask: three bitlists classifying each piece index.                 *)
(***************************************************************************)

\* Piecemask::new
Piecemask_new == [pbq |-> {}, nbk |-> {}, rqk |-> {}]

\* Piecemask::empty / Piecemask::occupied
Piecemask_empty(pm) == PieceIndices \ (pm.pbq \cup pm.nbk \cup pm.rqk)
Piecemask_occupied(pm) == PieceIndices \ Piecemask_empty(pm)

\* Piecemask::pawns .. Piecemask::kings
Piecemask_pawns(pm) == (pm.pbq \ pm.nbk) \ pm.rqk
Piecemask_knights(pm) == (pm.nbk \ pm.pbq) \ pm.rqk
Piecemask_bishops(pm) == (pm.pbq \cap pm.nbk) \ pm.rqk
Piecemask_rooks(pm) == (pm.rqk \ pm.pbq) \ pm.nbk
Piecemask_queens(pm) == (pm.pbq \cap pm.rqk) \ pm.nbk
Piecemask_kings(pm) == (pm.nbk \cap pm.rqk) \ pm.pbq

\* Piecemask::pieces_of_colour
Piecemask_pieces_of_colour(pm, colour) ==
  Piecemask_occupied(pm) \cap mask_from_colour(colour)

\* Piecemask::piece
Piecemask_piece(pm, index) ==
  LET pbq == index \in pm.pbq
      nbk == index \in pm.nbk
      rqk == index \in pm.rqk
  IN CASE pbq /\ ~nbk /\ ~rqk -> "Pawn"
       [] ~pbq /\ nbk /\ ~rqk -> "Knight"
       [] pbq /\ nbk /\ ~rqk -> "Bishop"
       [] ~pbq /\ ~nbk /\ rqk -> "Rook"
       [] pbq /\ ~nbk /\ rqk -> "Queen"
       [] ~pbq /\ nbk /\ rqk -> "King"
       [] OTHER -> NoPiece

\* The same with a queen given the king's bits.
Piecemask_add_piece_QueenAsKing(pm, piece, colour) ==
  LET piece_index == peek(Piecemask_empty(pm) \cap mask_from_colour(colour))
      yes == {piece_index}
  IN IF piece_index = None
     THEN [mask |-> pm, index |-> None]
     ELSE [mask |->
             [pbq |-> pm.pbq \cup (IF piece \in {"Pawn", "Bishop"} THEN yes ELSE {}),
              nbk |-> pm.nbk \cup (IF piece \in {"Knight", "Bishop", "King", "Queen"} THEN yes ELSE {}),
              rqk |-> pm.rqk \cup (IF piece \in {"Rook", "Queen", "King"} THEN yes ELSE {})],
           index |-> piece_index]

\* Piecemask::add_piece: the lowest free slot of the colour's half, or None.
Piecemask_add_piece(pm, piece, colour) ==
  LET piece_index == peek(Piecemask_empty(pm) \cap mask_from_colour(colour))
      yes == {piece_index}
  IN IF piece_index = None
     THEN [mask |-> pm, index |-> None]
     ELSE [mask |->
             [pbq |-> pm.pbq \cup (IF piece \in {"Pawn", "Bishop", "Queen"} THEN yes ELSE {}),
              nbk |-> pm.nbk \cup (IF piece \in {"Knight", "Bishop", "King"} THEN yes ELSE {}),
              rqk |-> pm.rqk \cup (IF piece \in {"Rook", "Queen", "King"} THEN yes ELSE {})],
           index |-> piece_index]

(***************************************************************************)
(* BoardData: bitlist (attacks to each square), piecelist (index ->        *)
(* square), index (square -> index), piecemask.  The field panic names the *)
(* assertion, expect or unwrap that aborted the program, NoPanic if none.  *)
(***************************************************************************)

NoPanic == "NoPanic"

Fail(d, what) == [d EXCEPT !.panic = what]

\* BoardData::new
BoardData_new ==
  [bitlist |-> [s \in Squares |-> {}],
   piecelist |-> [i \in PieceIndices |-> None],
   index |-> [s \in Squares |-> None],
   piecemask |-> Piecemask_new,
   panic |-> NoPanic]

\* BoardData::piece_index, has_piece, attacks_to, square_of_piece
piece_index_at(d, square) == d.index[square]
has_piece(d, square) == d.index[square] # None
attacks_to(d, square, colour) == d.bitlist[square] \cap mask_from_colour(colour)
square_of_piece(d, bit) == d.piecelist[bit]

\* BoardData::pawns .. BoardData::pieces_of_colour
pawns(d) == Piecemask_pawns(d.piecemask)
knights(d) == Piecemask_knights(d.piecemask)
bishops(d) == Piecemask_bishops(d.piecemask)
rooks(d) == Piecemask_rooks(d.piecemask)
queens(d) == Piecemask_queens(d.piecemask)
kings(d) == Piecemask_kings(d.piecemask)
pieces(d) == Piecemask_occupied(d.piecemask)
pieces_of_colour(d, colour) == Piecemask_pieces_of_colour(d.piecemask, colour)

\* BoardData::piece_from_bit (NoPiece where the source's expect would abort)
piece_from_bit(d, bit) == Piecemask_piece(d.piecemask, bit)

\* BoardData::piece_from_square / colour_from_square
piece_from_square(d, square) ==
  IF d.index[square] = None THEN NoPiece ELSE Piecemask_piece(d.piecemask, d.index[square])

colour_from_square(d, square) ==
  IF d.index[square] = None THEN None ELSE ColourOf(d.index[square])

\* The same with the bits of the slot left set.
Piecemask_remove_piece_BitsKept(d, piece_index) ==
  IF d.panic # NoPanic THEN d
  ELSE IF piece_index \notin Piecemask_occupied(d.piecemask)
       THEN Fail(d, "attempted to remove invalid piece")
       ELSE d

\* Piecemask::remove_piece: asserts the slot is occupied, then clears its bits.
Piecemask_remove_piece(d, piece_index) ==
  IF d.panic # NoPanic THEN d
  ELSE IF piece_index \notin Piecemask_occupied(d.piecemask)
       THEN Fail(d, "attempted to remove invalid piece")
       ELSE [d EXCEPT !.piecemask =
               [pbq |-> @.pbq \ {piece_index},
                nbk |-> @.nbk \ {piece_index},
                rqk |-> @.rqk \ {piece_index}]]

\* BitlistArray::add_piece: asserts the attack is not yet recorded.
BitlistArray_add_piece(d, square, piece) ==
  IF d.panic # NoPanic THEN d
  ELSE IF piece \in d.bitlist[square]
       THEN Fail(d, "attempted to add pre-existing piece attack")
       ELSE [d EXCEPT !.bitlist[square] = @ \cup {piece}]

\* A BitlistArray::remove_piece that clears every attack on the square.
BitlistArray_remove_piece_All(d, square, piece) ==
  IF d.panic # NoPanic THEN d
  ELSE IF piece \notin d.bitlist[square]
       THEN Fail(d, "attempted to remove nonexistent piece attack")
       ELSE [d EXCEPT !.bitlist[square] = {}]

\* BitlistArray::remove_piece: asserts the attack is recorded.
BitlistArray_remove_piece(d, square, piece) ==
  IF d.panic # NoPanic THEN d
  ELSE IF piece \notin d.bitlist[square]
       THEN Fail(d, "attempted to remove nonexistent piece attack")
       ELSE [d EXCEPT !.bitlist[square] = @ \ {piece}]

\* Piecelist::add_piece
Piecelist_add_piece(d, piece_index, square) ==
  IF d.panic # NoPanic THEN d
  ELSE IF d.piecelist[piece_index] # None
       THEN Fail(d, "attempted to add piece to occupied piece index")
       ELSE [d EXCEPT !.piecelist[piece_index] = square]

\* Piecelist::remove_piece
Piecelist_remove_piece(d, piece_index, square) ==
  IF d.panic # NoPanic THEN d
  ELSE IF d.piecelist[piece_index] = None
       THEN Fail(d, "piecelist: attempted to remove piece from empty square")
       ELSE IF d.piecelist[piece_index] # square
            THEN Fail(d, "piecelist: attempted to remove wrong piece from square")
            ELSE [d EXCEPT !.piecelist[piece_index] = None]

\* A Piecelist::move_piece that leaves the slot as it was.
Piecelist_move_piece_Unmoved(d, piece_index, square) == d

\* Piecelist::move_piece: writes the square, whatever the slot held.
Piecelist_move_piece(d, piece_index, square) ==
  IF d.panic # NoPanic THEN d
  ELSE [d EXCEPT !.piecelist[piece_index] = square]

\* PieceIndexArray::add_piece
PieceIndexArray_add_piece(d, piece_index, square) ==
  IF d.panic # NoPanic THEN d
  ELSE IF d.index[square] # None
       THEN Fail(d, "attempted to add piece to occupied square")
       ELSE [d EXCEPT !.index[square] = piece_index]

\* PieceIndexArray::remove_piece
PieceIndexArray_remove_piece(d, piece_index, square) ==
  IF d.panic # NoPanic THEN d
  ELSE IF d.index[square] = None
       THEN Fail(d, "index: attempted to remove piece from empty square")
       ELSE IF d.index[square] # piece_index
            THEN Fail(d, "index: attempted to remove wrong piece from square")
            ELSE [d EXCEPT !.index[square] = None]

\* A move_piece that forgets to clear the square the piece leaves.
PieceIndexArray_move_piece_KeepFrom(d, piece_index, from_square, dest_square) ==
  IF d.panic # NoPanic THEN d
  ELSE [d EXCEPT !.index = [@ EXCEPT ![dest_square] = piece_index]]

\* PieceIndexArray::move_piece
PieceIndexArray_move_piece(d, piece_index, from_square, dest_square) ==
  IF d.panic # NoPanic THEN d
  ELSE [d EXCEPT !.index = [@ EXCEPT ![from_square] = None, ![dest_square] = piece_index]]

(***************************************************************************)
(* BoardData::update_attacks and its direction tables.                     *)
(***************************************************************************)

DIRECTIONS ==
  <<
    "NorthNorthEast", "EastNorthEast", "EastSouthEast", "SouthSouthEast", "SouthSouthWest", "WestSouthWest",
    "WestNorthWest", "NorthNorthWest", NoDir, "NorthNorthEast", "EastNorthEast", "EastSouthEast",
    "SouthSouthEast", NoDir, "SouthSouthWest", "WestSouthWest", "WestNorthWest", "NorthNorthWest",
    NoDir, "EastSouthEast", "SouthSouthEast", "SouthSouthWest", "WestSouthWest", NoDir,
    "NorthNorthEast", "EastNorthEast", "WestNorthWest", "NorthNorthWest", NoDir, "NorthNorthEast",
    "EastNorthEast", NoDir, "WestNorthWest", "NorthNorthWest", NoDir, "SouthSouthEast",
    "EastSouthEast", NoDir, "WestSouthWest", "SouthSouthWest", NoDir, "NorthEast",
    "SouthEast", "SouthWest", "NorthWest", NoDir, "NorthEast", "SouthEast",
    NoDir, "NorthWest", "SouthWest", NoDir, "SouthEast", "SouthWest",
    NoDir, "NorthEast", "NorthWest", NoDir, "NorthEast", NoDir,
    "NorthWest", NoDir, "SouthEast", NoDir, "SouthWest", NoDir,
    "North", "East", "South", "West", NoDir, "North",
    "East", "South", NoDir, "North", "West", "South",
    NoDir, "East", "West", "South", NoDir, "North",
    "East", "West", NoDir, "North", "East", NoDir,
    "North", "West", NoDir, "South", "East", NoDir,
    "South", "West", NoDir, "North", "NorthEast", "East",
    "SouthEast", "South", "SouthWest", "West", "NorthWest", NoDir,
    "North", "NorthEast", "East", "SouthEast", "South", NoDir,
    "North", "South", "SouthWest", "West", "NorthWest", NoDir,
    "East", "SouthEast", "South", "SouthWest", "West", NoDir,
    "North", "NorthEast", "East", "West", "NorthWest", NoDir,
    "North", "NorthEast", "East", NoDir, "North", "NorthWest",
    "West", NoDir, "South", "SouthEast", "East", NoDir,
    "South", "SouthWest", "West", NoDir
  >>

KNIGHT_ATTACKS == 41
BISHOP_ATTACKS == 25
ROOK_ATTACKS == 33

BASE ==
  <<0, 0, KNIGHT_ATTACKS, KNIGHT_ATTACKS + BISHOP_ATTACKS,
    KNIGHT_ATTACKS + BISHOP_ATTACKS + ROOK_ATTACKS,
    KNIGHT_ATTACKS + BISHOP_ATTACKS + ROOK_ATTACKS>>

OFFSET ==
  <<
    [i \in 1..64 |-> 0],
    <<29, 24, 24, 24, 24, 24, 24, 32,
       9,  0,  0,  0,  0,  0,  0, 14,
       9,  0,  0,  0,  0,  0,  0, 14,
       9,  0,  0,  0,  0,  0,  0, 14,
       9,  0,  0,  0,  0,  0,  0, 14,
       9,  0,  0,  0,  0,  0,  0, 14,
       9,  0,  0,  0,  0,  0,  0, 14,
      35, 19, 19, 19, 19, 19, 19, 38>>,
    <<17, 14, 14, 14, 14, 14, 14, 19,
       5,  0,  0,  0,  0,  0,  0,  8,
       5,  0,  0,  0,  0,  0,  0,  8,
       5,  0,  0,  0,  0,  0,  0,  8,
       5,  0,  0,  0,  0,  0,  0,  8,
       5,  0,  0,  0,  0,  0,  0,  8,
       5,  0,  0,  0,  0,  0,  0,  8,
      21, 11, 11, 11, 11, 11, 11, 23>>,
    <<21, 17, 17, 17, 17, 17, 17, 24,
       5,  0,  0,  0,  0,  0,  0,  9,
       5,  0,  0,  0,  0,  0,  0,  9,
       5,  0,  0,  0,  0,  0,  0,  9,
       5,  0,  0,  0,  0,  0,  0,  9,
       5,  0,  0,  0,  0,  0,  0,  9,
       5,  0,  0,  0,  0,  0,  0,  9,
      27, 13, 13, 13, 13, 13, 13, 30>>,
    <<33, 27, 27, 27, 27, 27, 27, 37,
       9,  0,  0,  0,  0,  0,  0, 15,
       9,  0,  0,  0,  0,  0,  0, 15,
       9,  0,  0,  0,  0,  0,  0, 15,
       9,  0,  0,  0,  0,  0,  0, 15,
       9,  0,  0,  0,  0,  0,  0, 15,
       9,  0,  0,  0,  0,  0,  0, 15,
      41, 21, 21, 21, 21, 21, 21, 45>>,
    <<33, 27, 27, 27, 27, 27, 27, 37,
       9,  0,  0,  0,  0,  0,  0, 15,
       9,  0,  0,  0,  0,  0,  0, 15,
       9,  0,  0,  0,  0,  0,  0, 15,
       9,  0,  0,  0,  0,  0,  0, 15,
       9,  0,  0,  0,  0,  0,  0, 15,
       9,  0,  0,  0,  0,  0,  0, 15,
      41, 21, 21, 21, 21, 21, 21, 45>>
  >>

\* while let Some(direction) = DIRECTIONS[offset] { ...; offset += 1 }
RECURSIVE DirectionsFrom(_)
DirectionsFrom(offset) ==
  IF DIRECTIONS[offset + 1] = NoDir THEN <<>>
  ELSE <<DIRECTIONS[offset + 1]>> \o DirectionsFrom(offset + 1)

\* The directions update_attacks walks for a piece on a square.
AttackDirections(piece, square) ==
  DirectionsFrom(BASE[PieceOrdinal(piece)] + OFFSET[PieceOrdinal(piece)][square + 1])

\* A ray walk that forgets the break at the first occupied square.
RayThroughBlockers(index, square, dir) == ray_attacks(square, dir)

\* for dest in ray_attacks(direction) { update(dest); if index[dest].is_some() { break } }
RECURSIVE RayUntilBlocked(_, _, _)
RayUntilBlocked(index, square, dir) ==
  LET next == travel(square, dir)
  IN IF next = None THEN <<>>
     ELSE IF index[next] # None THEN <<next>>
          ELSE <<next>> \o RayUntilBlocked(index, next, dir)

RECURSIVE RaysUntilBlocked(_, _, _, _)
RaysUntilBlocked(index, square, dirs, i) ==
  IF i > Len(dirs) THEN <<>>
  ELSE RayUntilBlocked(index, square, dirs[i]) \o RaysUntilBlocked(index, square, dirs, i + 1)

\* The squares update_attacks visits along the directions of a knight, bishop,
\* rook, queen or king: single steps for the leapers, rays for the sliders.
DestsAlong(d, square, piece, dirs) ==
  IF piece \in {"Knight", "King"} THEN TravelEach(square, dirs, 1)
  ELSE RaysUntilBlocked(d.index, square, dirs, 1)

\* The squares update_attacks visits, in order.
AttackDests(d, square, bit, piece) ==
  IF piece = "Pawn" THEN pawn_attacks(square, ColourOf(bit))
  ELSE DestsAlong(d, square, piece, AttackDirections(piece, square))

\* The closure update of update_attacks applied to each visited square.
RECURSIVE UpdateEach(_, _, _, _, _, _)
UpdateEach(d, dests, i, square, bit, add) ==
  IF i > Len(dests) \/ d.panic # NoPanic THEN d
  ELSE LET dest == dests[i]
           d1 == IF add
                 THEN IF dest = square
                      THEN Fail(d, "debug_assert dest != square")
                      ELSE BitlistArray_add_piece(d, dest, bit)
                 ELSE BitlistArray_remove_piece(d, dest, bit)
       IN UpdateEach(d1, dests, i + 1, square, bit, add)

\* An update_attacks that only adds: a removal leaves the attacks recorded.
update_attacks_AddOnly(d, square, bit, piece, add) ==
  IF d.panic # NoPanic \/ ~add THEN d
  ELSE UpdateEach(d, AttackDests(d, square, bit, piece), 1, square, bit, add)

\* BoardData::update_attacks
update_attacks(d, square, bit, piece, add) ==
  IF d.panic # NoPanic THEN d
  ELSE UpdateEach(d, AttackDests(d, square, bit, piece), 1, square, bit, add)

\* if let Some(dir) = square.direction(dest) { for dest in ray_attacks(dir) { ... } }
UpdateSliderAlong(d, square, piece, add, dir) ==
  IF dir = NoDir THEN d
  ELSE UpdateEach(d, RayUntilBlocked(d.index, square, dir), 1, None, piece, add)

\* The body of update_sliders' loop for one slider attacking the square.
UpdateSlider(d, square, piece, add) ==
  IF d.panic # NoPanic THEN d
  ELSE IF d.piecelist[piece] = None
       THEN Fail(d, "valid piece index has invalid square")
       ELSE UpdateSliderAlong(d, square, piece, add, direction(d.piecelist[piece], square))

RECURSIVE UpdateSliders(_, _, _, _, _)
UpdateSliders(d, square, sliders, i, add) ==
  IF i > Len(sliders) THEN d
  ELSE UpdateSliders(UpdateSlider(d, square, sliders[i], add), square, sliders, i + 1, add)

\* An update_sliders with the sense of add inverted.
update_sliders_Inverted(d, square, add) ==
  IF d.panic # NoPanic THEN d
  ELSE UpdateSliders(d, square,
         BitlistIter(d.bitlist[square] \cap (bishops(d) \cup rooks(d) \cup queens(d))),
         1, ~add)

\* BoardData::update_sliders
update_sliders(d, square, add) ==
  IF d.panic # NoPanic THEN d
  ELSE LET sliders == d.bitlist[square] \cap
                        (bishops(d) \cup rooks(d) \cup queens(d))
       IN UpdateSliders(d, square, BitlistIter(sliders), 1, add)

(***************************************************************************)
(* BoardData's public mutations.                                           *)
(***************************************************************************)

\* if update { update_attacks(square, piece_index, piece, true);
\*             update_sliders(square, false) }
AddPieceAttacks(d, piece_index, piece, square, update) ==
  IF update
  THEN update_sliders(update_attacks(d, square, piece_index, piece, TRUE), square, FALSE)
  ELSE d

\* add_piece once the piece mask has given the index: the piece list, the
\* square index and, if asked for, the attacks.
AddPieceAt(d, r, piece, square, update) ==
  IF r.index = None THEN Fail(d, "no free piece index")
  ELSE AddPieceAttacks(
         PieceIndexArray_add_piece(
           Piecelist_add_piece([d EXCEPT !.piecemask = r.mask], r.index, square),
           r.index, square),
         r.index, piece, square, update)

\* BoardData::add_piece
add_piece(d, piece, colour, square, update) ==
  IF d.panic # NoPanic THEN d
  ELSE AddPieceAt(d, Piecemask_add_piece(d.piecemask, piece, colour), piece, square, update)

\* A removal that does not extend the slider rays through the vacated square.
RemovePieceAttacks_NoSliders(d, piece_index, piece, square, update) ==
  IF update THEN update_attacks(d, square, piece_index, piece, FALSE) ELSE d

\* if update { update_attacks(square, piece_index, piece, false);
\*             update_sliders(square, true) }
RemovePieceAttacks(d, piece_index, piece, square, update) ==
  IF update
  THEN update_sliders(update_attacks(d, square, piece_index, piece, FALSE), square, TRUE)
  ELSE d

\* remove_piece once the square and the piece are known.
RemovePieceAt(d, piece_index, square, piece, update) ==
  RemovePieceAttacks(
    PieceIndexArray_remove_piece(
      Piecelist_remove_piece(Piecemask_remove_piece(d, piece_index), piece_index, square),
      piece_index, square),
    piece_index, piece, square, update)

\* BoardData::remove_piece
remove_piece(d, piece_index, update) ==
  IF d.panic # NoPanic THEN d
  ELSE IF d.piecelist[piece_index] = None
       THEN Fail(d, "valid piece index has invalid square")
       ELSE IF piece_from_bit(d, piece_index) = NoPiece
            THEN Fail(d, "piece index corresponds to invalid piece")
            ELSE RemovePieceAt(d, piece_index, d.piecelist[piece_index],
                               piece_from_bit(d, piece_index), update)

\* debug_assert!(!self.bitlist[to_square].contains(piece_index.into()))
AssertNoSelfAttack(d, piece_index, to_square) ==
  IF d.panic = NoPanic /\ piece_index \in d.bitlist[to_square]
  THEN Fail(d, "piece cannot attack itself")
  ELSE d

\* A move_piece that forgets update_sliders(to_square, false): the sliders
\* that saw through the destination keep their attacks beyond it.
MovePieceAt_NoCut(d, piece_index, piece, from_square, to_square) ==
  AssertNoSelfAttack(
    update_attacks(
      PieceIndexArray_move_piece(
        Piecelist_move_piece(
          update_sliders(update_attacks(d, from_square, piece_index, piece, FALSE),
                         from_square, TRUE),
          piece_index, to_square),
        piece_index, from_square, to_square),
      to_square, piece_index, piece, TRUE),
    piece_index, to_square)

\* move_piece once the index and the piece are known.
MovePieceAt(d, piece_index, piece, from_square, to_square) ==
  AssertNoSelfAttack(
    update_sliders(
      update_attacks(
        PieceIndexArray_move_piece(
          Piecelist_move_piece(
            update_sliders(update_attacks(d, from_square, piece_index, piece, FALSE),
                           from_square, TRUE),
            piece_index, to_square),
          piece_index, from_square, to_square),
        to_square, piece_index, piece, TRUE),
      to_square, FALSE),
    piece_index, to_square)

\* BoardData::move_piece
move_piece(d, from_square, to_square) ==
  IF d.panic # NoPanic THEN d
  ELSE IF d.index[from_square] = None
       THEN Fail(d, "attempted to move piece from empty square")
       ELSE IF piece_from_bit(d, d.index[from_square]) = NoPiece
            THEN Fail(d, "piece index corresponds to invalid piece")
            ELSE MovePieceAt(d, d.index[from_square],
                             piece_from_bit(d, d.index[from_square]),
                             from_square, to_square)

\* The second loop of rebuild_attacks, over the squares in ascending order.
RECURSIVE RebuildFrom(_, _)
RebuildFrom(d, square) ==
  IF square > 63 \/ d.panic # NoPanic THEN d
  ELSE IF d.index[square] = None THEN RebuildFrom(d, square + 1)
       ELSE IF piece_from_bit(d, d.index[square]) = NoPiece
            THEN Fail(d, "piece index corresponds to invalid piece")
            ELSE RebuildFrom(
                   update_attacks(d, square, d.index[square],
                                  piece_from_bit(d, d.index[square]), TRUE),
                   square + 1)

\* BoardData::rebuild_attacks
rebuild_attacks(d) ==
  IF d.panic # NoPanic THEN d
  ELSE RebuildFrom([d EXCEPT !.bitlist = [s \in Squares |-> {}]], 0)

(***************************************************************************)
(* Board: data, side to move, castling rights (K, Q, k, q), en-passant     *)
(* square.  A Move is [from, dest, kind, prom].                            *)
(***************************************************************************)

MoveTypes ==
  {"Normal", "Capture", "Castle", "DoublePush", "EnPassant", "Promotion", "CapturePromotion"}

\* Move::new
Move_new(from, dest, kind, promotion_piece) ==
  [from |-> from, dest |-> dest, kind |-> kind, prom |-> promotion_piece]

\* Board::new
Board_new ==
  [data |-> BoardData_new, side |-> White,
   castle |-> <<FALSE, FALSE, FALSE, FALSE>>, ep |-> None]

\* The king of a colour: (kings & mask_from_colour(colour)).peek()
king_index_of(b, colour) == peek(kings(b.data) \cap mask_from_colour(colour))

\* Board::illegal
illegal(b) ==
  LET king_index == peek(kings(b.data) \cap pieces_of_colour(b.data, OtherColour(b.side)))
  IN IF king_index # None
     THEN attacks_to(b.data, square_of_piece(b.data, king_index), b.side) # {}
     ELSE FALSE

\* The squares the rook leaves and reaches in a Castle move.
castle_rook_from(m) ==
  IF m.dest > m.from THEN east(m.dest)
  ELSE IF west(m.dest) = None THEN None ELSE west(west(m.dest))

\* A castle_rook_to that puts the rook west of the king on either side.
castle_rook_to_West(m) == west(m.dest)

castle_rook_to(m) == IF m.dest > m.from THEN west(m.dest) ELSE east(m.dest)

\* The piece Board::make removes first: the piece on dest (Capture), the pawn
\* south of the en-passant square (EnPassant), the pawn on from (Promotion,
\* CapturePromotion).  None where the source's unwrap aborts.
make_removed(b, m) ==
  CASE m.kind = "Capture" -> piece_index_at(b.data, m.dest)
    [] m.kind = "EnPassant" ->
         IF b.ep = None \/ relative_south(b.ep, b.side) = None THEN None
         ELSE piece_index_at(b.data, relative_south(b.ep, b.side))
    [] m.kind \in {"Promotion", "CapturePromotion"} ->
         IF m.prom = NoPiece
            \/ (m.kind = "CapturePromotion" /\ piece_index_at(b.data, m.dest) = None)
         THEN None
         ELSE piece_index_at(b.data, m.from)
    [] OTHER -> None

\* The first call on data of each arm of the match on m.kind.
make_first(b, m, removed, rook_from, rook_to) ==
  CASE m.kind \in {"Normal", "DoublePush"} -> b.data
    [] m.kind = "Castle" ->
         IF rook_from = None \/ rook_to = None
         THEN Fail(b.data, "castle: unwrap on None")
         ELSE move_piece(b.data, rook_from, rook_to)
    [] OTHER ->
         IF removed = None
         THEN Fail(b.data, IF m.kind = "Capture"
                           THEN "attempted to capture an empty square"
                           ELSE "make: unwrap on None")
         ELSE remove_piece(b.data, removed, TRUE)

\* A make whose CapturePromotion leaves the piece on dest standing.
make_second_Skipped(d, b, m) == d

\* CapturePromotion removes the piece on dest as well.
make_second(d, b, m) ==
  IF m.kind = "CapturePromotion" /\ d.panic = NoPanic
  THEN remove_piece(d, piece_index_at(b.data, m.dest), TRUE)
  ELSE d

\* The last call of each arm: add_piece of the promotion piece, or move_piece
\* of the moving piece.
make_last(d, b, m) ==
  IF m.kind \in {"Promotion", "CapturePromotion"}
  THEN add_piece(d, m.prom, b.side, m.dest, TRUE)
  ELSE move_piece(d, m.from, m.dest)

\* The match on m.kind in Board::make, acting on the clone's data.
make_data(b, m) ==
  make_last(
    make_second(make_first(b, m, make_removed(b, m), castle_rook_from(m), castle_rook_to(m)),
                b, m),
    b, m)

\* A make that leaves the en-passant square standing after a Normal move.
make_ep_Kept(b, m) ==
  IF m.kind = "DoublePush" THEN relative_north(m.from, b.side)
  ELSE IF m.kind = "Normal" THEN b.ep ELSE None

\* The en-passant square Board::make leaves.
make_ep(b, m) ==
  IF m.kind = "DoublePush" THEN relative_north(m.from, b.side) ELSE None

a1 == from_rank_file(0, 0)
a8 == from_rank_file(7, 0)
e1 == from_rank_file(0, 4)
e8 == from_rank_file(7, 4)
h1 == from_rank_file(0, 7)
h8 == from_rank_file(7, 7)

\* A castling-rights update that sets the right of a corner a piece arrives on.
make_castle_DestSets(b, m) ==
  <<(b.castle[1] /\ m.from # e1 /\ m.from # h1) \/ m.dest = h1,
    (b.castle[2] /\ m.from # e1 /\ m.from # a1) \/ m.dest = a1,
    (b.castle[3] /\ m.from # e8 /\ m.from # h8) \/ m.dest = h8,
    (b.castle[4] /\ m.from # e8 /\ m.from # a8) \/ m.dest = a8>>

\* A castling-rights update that looks at the king's move only.
make_castle_KingOnly(b, m) ==
  <<b.castle[1] /\ m.from # e1, b.castle[2] /\ m.from # e1,
    b.castle[3] /\ m.from # e8, b.castle[4] /\ m.from # e8>>

\* A castling-rights update that forgets the captures on the corners.
make_castle_FromOnly(b, m) ==
  <<b.castle[1] /\ m.from # e1 /\ m.from # h1,
    b.castle[2] /\ m.from # e1 /\ m.from # a1,
    b.castle[3] /\ m.from # e8 /\ m.from # h8,
    b.castle[4] /\ m.from # e8 /\ m.from # a8>>

\* The castling-rights update of Board::make.
make_castle(b, m) ==
  <<b.castle[1] /\ m.from # e1 /\ m.from # h1 /\ m.dest # h1,
    b.castle[2] /\ m.from # e1 /\ m.from # a1 /\ m.dest # a1,
    b.castle[3] /\ m.from # e8 /\ m.from # h8 /\ m.dest # h8,
    b.castle[4] /\ m.from # e8 /\ m.from # a8 /\ m.dest # a8>>

\* Board::make
make(b, m) ==
  [data |-> make_data(b, m),
   side |-> OtherColour(b.side),
   castle |-> make_castle(b, m),
   ep |-> make_ep(b, m)]

(***************************************************************************)
(* Pin discovery.                                                          *)
(***************************************************************************)

\* Direction::valid_for_slider: diagonals for bishops, orthogonals for rooks,
\* both for queens.
valid_for_slider(dir, piece) ==
  CASE piece = "Bishop" -> diagonal(dir)
    [] piece = "Rook" -> orthogonal(dir)
    [] piece = "Queen" -> diagonal(dir) \/ orthogonal(dir)
    [] OTHER -> FALSE

\* PinInfo::new
PinInfo_new == [pins |-> [i \in PieceIndices |-> NoDir], enpassant_pinned |-> {}]

RECURSIVE PinWalk(_, _, _, _, _, _)
\* A walk that passes over enemy blockers.
PinWalk_EnemyIgnored(b, ray, i, king_square, friendly_blocker, enemy_blocker) ==
  IF i > Len(ray) \/ ray[i] = king_square THEN <<friendly_blocker, enemy_blocker>>
  ELSE LET square == ray[i]
           piece_index == piece_index_at(b.data, square)
       IN IF piece_index = None \/ colour_from_square(b.data, square) = OtherColour(b.side)
          THEN PinWalk(b, ray, i + 1, king_square, friendly_blocker, enemy_blocker)
          ELSE IF friendly_blocker # None THEN <<None, None>>
               ELSE PinWalk(b, ray, i + 1, king_square, piece_index, enemy_blocker)

\* The walk from a possible pinner towards the king: the blockers found, as
\* <<friendly_blocker, enemy_blocker>>.
PinWalk(b, ray, i, king_square, friendly_blocker, enemy_blocker) ==
  IF i > Len(ray) \/ ray[i] = king_square THEN <<friendly_blocker, enemy_blocker>>
  ELSE LET square == ray[i]
           piece_index == piece_index_at(b.data, square)
       IN IF piece_index = None
          THEN PinWalk(b, ray, i + 1, king_square, friendly_blocker, enemy_blocker)
          ELSE IF colour_from_square(b.data, square) = OtherColour(b.side)
               THEN IF enemy_blocker # None THEN <<None, None>>
                    ELSE PinWalk(b, ray, i + 1, king_square, friendly_blocker, piece_index)
               ELSE IF friendly_blocker # None THEN <<None, None>>
                    ELSE PinWalk(b, ray, i + 1, king_square, piece_index, enemy_blocker)

\* The same without the test that the slider is on the king's rank.
PinStep_AnyDirection(b, info, king_square, possible_pinner) ==
  LET pinner_square == square_of_piece(b.data, possible_pinner)
      pinner_type == piece_from_bit(b.data, possible_pinner)
      pinner_king_dir == direction(pinner_square, king_square)
  IN IF pinner_king_dir = NoDir THEN info
     ELSE IF ~valid_for_slider(pinner_king_dir, pinner_type) THEN info
     ELSE LET blockers == PinWalk(b, ray_attacks(pinner_square, pinner_king_dir), 1,
                                  king_square, None, None)
              friendly_blocker == blockers[1]
              enemy_blocker == blockers[2]
          IN IF friendly_blocker = None THEN info
             ELSE IF enemy_blocker = None
                  THEN [info EXCEPT !.pins[friendly_blocker] = pinner_king_dir]
                  ELSE IF piece_from_bit(b.data, friendly_blocker) # "Pawn"
                          \/ piece_from_bit(b.data, enemy_blocker) # "Pawn"
                       THEN info
                       ELSE [info EXCEPT !.enpassant_pinned = @ \cup {friendly_blocker}]

\* The body of discover_pinned_pieces' loop for one possible pinner.
PinStep(b, info, king_square, possible_pinner) ==
  LET pinner_square == square_of_piece(b.data, possible_pinner)
      pinner_type == piece_from_bit(b.data, possible_pinner)
      pinner_king_dir == direction(pinner_square, king_square)
  IN IF pinner_king_dir = NoDir THEN info
     ELSE IF ~valid_for_slider(pinner_king_dir, pinner_type) THEN info
     ELSE LET blockers == PinWalk(b, ray_attacks(pinner_square, pinner_king_dir), 1,
                                  king_square, None, None)
              friendly_blocker == blockers[1]
              enemy_blocker == blockers[2]
          IN IF friendly_blocker = None THEN info
             ELSE IF enemy_blocker = None
                  THEN [info EXCEPT !.pins[friendly_blocker] = pinner_king_dir]
                  ELSE IF piece_from_bit(b.data, friendly_blocker) # "Pawn"
                          \/ piece_from_bit(b.data, enemy_blocker) # "Pawn"
                          \/ (pinner_king_dir # "East" /\ pinner_king_dir # "West")
                       THEN info
                       ELSE [info EXCEPT !.enpassant_pinned = @ \cup {friendly_blocker}]

RECURSIVE PinSteps(_, _, _, _, _)
PinSteps(b, info, king_square, pinners, i) ==
  IF i > Len(pinners) THEN info
  ELSE PinSteps(b, PinStep(b, info, king_square, pinners[i]), king_square, pinners, i + 1)

\* A discover_pinned_pieces that never flags a pawn for en passant.
discover_pinned_pieces_NoRankPin(b) ==
  LET sliders == bishops(b.data) \cup rooks(b.data) \cup queens(b.data)
      king_square == square_of_piece(b.data, king_index_of(b, b.side))
  IN [PinSteps(b, PinInfo_new, king_square,
               BitlistIter(pieces_of_colour(b.data, OtherColour(b.side)) \cap sliders), 1)
        EXCEPT !.enpassant_pinned = {}]

\* Board::discover_pinned_pieces
discover_pinned_pieces(b) ==
  LET sliders == bishops(b.data) \cup rooks(b.data) \cup queens(b.data)
      king_square == square_of_piece(b.data, king_index_of(b, b.side))
  IN PinSteps(b, PinInfo_new, king_square,
              BitlistIter(pieces_of_colour(b.data, OtherColour(b.side)) \cap sliders), 1)

(***************************************************************************)
(* Move generation.  Every operator returns the moves it pushes onto the   *)
(* ArrayVec, in push order; the list generate fills is their concatenation.*)
(***************************************************************************)

\* A try_push_move that ignores the pins.
try_push_move_Unpinned(b, from, dest, kind, promotion_piece, pininfo) ==
  <<Move_new(from, dest, kind, promotion_piece)>>

\* A try_push_move that holds back a pinned piece only when its move has no
\* direction.
try_push_move_NoLineTest(b, from, dest, kind, promotion_piece, pininfo) ==
  IF pininfo.pins[piece_index_at(b.data, from)] # NoDir /\ direction(from, dest) = NoDir
  THEN <<>>
  ELSE <<Move_new(from, dest, kind, promotion_piece)>>

\* Board::try_push_move: the move, unless the piece is pinned off the line.
try_push_move(b, from, dest, kind, promotion_piece, pininfo) ==
  LET dir == pininfo.pins[piece_index_at(b.data, from)]
      move_dir == direction(from, dest)
  IN IF dir # NoDir /\ (move_dir = NoDir \/ (dir # move_dir /\ dir # opposite(move_dir)))
     THEN <<>>
     ELSE <<Move_new(from, dest, kind, promotion_piece)>>

\* The four promotion pushes, in the source's order: Queen, Knight, Rook, Bishop.
PushPromotions(b, from, dest, kind, pininfo) ==
  try_push_move(b, from, dest, kind, "Queen", pininfo)
    \o try_push_move(b, from, dest, kind, "Knight", pininfo)
    \o try_push_move(b, from, dest, kind, "Rook", pininfo)
    \o try_push_move(b, from, dest, kind, "Bishop", pininfo)

\* for capturer in <bitlist> { try_push_move(square_of_piece(capturer), dest, kind, None) }
RECURSIVE PushEach(_, _, _, _, _, _)
PushEach(b, capturers, i, dest, kind, pininfo) ==
  IF i > Len(capturers) THEN <<>>
  ELSE try_push_move(b, square_of_piece(b.data, capturers[i]), dest, kind, NoPiece, pininfo)
         \o PushEach(b, capturers, i + 1, dest, kind, pininfo)

\* The pawn loop of find_attackers.
RECURSIVE PushPawnCaptures(_, _, _, _, _)
PushPawnCaptures(b, capturers, i, dest, pininfo) ==
  IF i > Len(capturers) THEN <<>>
  ELSE LET from == square_of_piece(b.data, capturers[i])
       IN (IF is_relative_eighth(RankOf(dest), b.side)
           THEN PushPromotions(b, from, dest, "CapturePromotion", pininfo)
           ELSE try_push_move(b, from, dest, "Capture", NoPiece, pininfo))
            \o PushPawnCaptures(b, capturers, i + 1, dest, pininfo)

\* A generate_pawn_enpassant that forgets enpassant_pinned.
generate_pawn_enpassant_Unpinned(b, pininfo) ==
  IF b.ep = None THEN <<>>
  ELSE PushEach(b, BitlistIter(attacks_to(b.data, b.ep, b.side) \cap pawns(b.data)),
                1, b.ep, "EnPassant", pininfo)

\* Board::generate_pawn_enpassant
generate_pawn_enpassant(b, pininfo) ==
  IF b.ep = None THEN <<>>
  ELSE PushEach(b,
         BitlistIter((attacks_to(b.data, b.ep, b.side) \cap pawns(b.data))
                       \ pininfo.enpassant_pinned),
         1, b.ep, "EnPassant", pininfo)

\* A generate_pawn_quiet without the double push.
generate_pawn_quiet_SingleStep(b, from, pininfo) ==
  LET dest == relative_north(from, b.side)
  IN IF dest = None \/ has_piece(b.data, dest) THEN <<>>
     ELSE IF is_relative_eighth(RankOf(dest), b.side)
          THEN PushPromotions(b, from, dest, "Promotion", pininfo)
          ELSE try_push_move(b, from, dest, "Normal", NoPiece, pininfo)

\* A generate_pawn_quiet that lets a pawn step twice from any rank.
generate_pawn_quiet_AnyRank(b, from, pininfo) ==
  LET dest == relative_north(from, b.side)
  IN IF dest = None \/ has_piece(b.data, dest) THEN <<>>
     ELSE LET v1 == IF is_relative_eighth(RankOf(dest), b.side)
                    THEN PushPromotions(b, from, dest, "Promotion", pininfo)
                    ELSE try_push_move(b, from, dest, "Normal", NoPiece, pininfo)
              dest2 == relative_north(dest, b.side)
          IN IF dest2 # None /\ ~has_piece(b.data, dest2)
             THEN v1 \o try_push_move(b, from, dest2, "DoublePush", NoPiece, pininfo)
             ELSE v1

\* Board::generate_pawn_quiet
generate_pawn_quiet(b, from, pininfo) ==
  LET dest == relative_north(from, b.side)
  IN IF dest = None \/ has_piece(b.data, dest) THEN <<>>
     ELSE LET v1 == IF is_relative_eighth(RankOf(dest), b.side)
                    THEN PushPromotions(b, from, dest, "Promotion", pininfo)
                    ELSE try_push_move(b, from, dest, "Normal", NoPiece, pininfo)
              dest2 == relative_north(dest, b.side)
          IN IF dest2 # None /\ is_relative_fourth(RankOf(dest2), b.side)
                /\ ~has_piece(b.data, dest2)
             THEN v1 \o try_push_move(b, from, dest2, "DoublePush", NoPiece, pininfo)
             ELSE v1

\* The closure find_attackers of generate_captures: every capture onto dest.
find_attackers(b, dest, pininfo) ==
  LET d == b.data
      attacks == attacks_to(d, dest, b.side)
  IN PushPawnCaptures(b, BitlistIter(attacks \cap pawns(d)), 1, dest, pininfo)
       \o PushEach(b, BitlistIter(attacks \cap knights(d)), 1, dest, "Capture", pininfo)
       \o PushEach(b, BitlistIter(attacks \cap bishops(d)), 1, dest, "Capture", pininfo)
       \o PushEach(b, BitlistIter(attacks \cap rooks(d)), 1, dest, "Capture", pininfo)
       \o PushEach(b, BitlistIter(attacks \cap queens(d)), 1, dest, "Capture", pininfo)
       \o (IF attacks_to(d, dest, OtherColour(b.side)) # {} THEN <<>>
           ELSE PushEach(b, BitlistIter(attacks \cap kings(d)), 1, dest, "Capture", pininfo))

RECURSIVE FindAttackersEach(_, _, _, _)
FindAttackersEach(b, victims, i, pininfo) ==
  IF i > Len(victims) THEN <<>>
  ELSE find_attackers(b, square_of_piece(b.data, victims[i]), pininfo)
         \o FindAttackersEach(b, victims, i + 1, pininfo)

\* Board::generate_captures
generate_captures(b) ==
  LET d == b.data
      pininfo == discover_pinned_pieces(b)
      enemy == pieces_of_colour(d, OtherColour(b.side))
      victims == BitlistIter(enemy \cap queens(d)) \o BitlistIter(enemy \cap rooks(d))
                   \o BitlistIter(enemy \cap bishops(d)) \o BitlistIter(enemy \cap knights(d))
                   \o BitlistIter(enemy \cap pawns(d))
  IN FindAttackersEach(b, victims, 1, pininfo) \o generate_pawn_enpassant(b, pininfo)

\* The closure add_pawn_blocks of generate_single_check: pawn pushes onto dest.
add_pawn_blocks(b, dest, pininfo) ==
  LET d == b.data
      from == relative_south(dest, b.side)
      add_pawn_block(from_square, kind) ==
        IF colour_from_square(d, from_square) = b.side
        THEN try_push_move(b, from_square, dest, kind, NoPiece, pininfo)
        ELSE <<>>
  IN IF from = None THEN <<>>
     ELSE IF piece_from_square(d, from) = "Pawn" THEN add_pawn_block(from, "Normal")
     ELSE IF piece_from_square(d, from) # NoPiece THEN <<>>
     ELSE IF ~is_relative_fourth(RankOf(dest), b.side) THEN <<>>
     ELSE LET from2 == relative_south(from, b.side)
          IN IF from2 # None /\ piece_from_square(d, from2) = "Pawn"
             THEN add_pawn_block(from2, "DoublePush")
             ELSE <<>>

\* The capture of the single checker: for capturer in attacks_to(attacker_square, side).
RECURSIVE PushCheckerCaptures(_, _, _, _, _)
PushCheckerCaptures(b, capturers, i, attacker_square, pininfo) ==
  IF i > Len(capturers) THEN <<>>
  ELSE LET d == b.data
           capturer == capturers[i]
           from == square_of_piece(d, capturer)
       IN (IF piece_from_bit(d, capturer) = "King"
              /\ attacks_to(d, attacker_square, OtherColour(b.side)) # {}
           THEN <<>>
           ELSE IF piece_from_bit(d, capturer) = "Pawn"
                   /\ is_relative_eighth(RankOf(attacker_square), b.side)
                THEN PushPromotions(b, from, attacker_square, "CapturePromotion", pininfo)
                ELSE try_push_move(b, from, attacker_square, "Capture", NoPiece, pininfo))
            \o PushCheckerCaptures(b, capturers, i + 1, attacker_square, pininfo)

\* The blocks of a slider's check: for dest in ray from the king towards the attacker.
RECURSIVE PushBlocks(_, _, _, _, _)
PushBlocks(b, ray, i, attacker_square, pininfo) ==
  IF i > Len(ray) \/ ray[i] = attacker_square THEN <<>>
  ELSE LET d == b.data
           dest == ray[i]
           blockers == (attacks_to(d, dest, b.side) \ pawns(d)) \ kings(d)
       IN PushEach(b, BitlistIter(blockers), 1, dest, "Normal", pininfo)
            \o add_pawn_blocks(b, dest, pininfo)
            \o PushBlocks(b, ray, i + 1, attacker_square, pininfo)

\* TRUE when the square behind the king on a checking slider's ray is square.
IsXray(king_square, attacker_direction, attacker_piece, square) ==
  /\ attacker_direction # NoDir
  /\ travel(king_square, attacker_direction) # None
  /\ attacker_piece \in {"Bishop", "Rook", "Queen"}
  /\ travel(king_square, attacker_direction) = square

\* The king moves of generate_single_check: for square in king_square.king_attacks().
RECURSIVE PushKingEvasions1(_, _, _, _, _, _, _)
PushKingEvasions1(b, squares, i, king_square, attacker_square, attacker_direction, attacker_piece) ==
  IF i > Len(squares) THEN <<>>
  ELSE LET d == b.data
           square == squares[i]
           skip == \/ (has_piece(d, square)
                       /\ (square = attacker_square
                           \/ colour_from_square(d, square) = b.side))
                   \/ attacks_to(d, square, OtherColour(b.side)) # {}
                   \/ IsXray(king_square, attacker_direction, attacker_piece, square)
           kind == IF has_piece(d, square) THEN "Capture" ELSE "Normal"
       IN (IF skip THEN <<>> ELSE <<Move_new(king_square, square, kind, NoPiece)>>)
            \o PushKingEvasions1(b, squares, i + 1, king_square, attacker_square,
                                 attacker_direction, attacker_piece)

\* A generate_single_check without the en-passant capture of the checker.
generate_single_check_NoEnPassant(b) ==
  LET d == b.data
      king_square == square_of_piece(d, king_index_of(b, b.side))
      attacker_index == peek(attacks_to(d, king_square, OtherColour(b.side)))
      attacker_piece == piece_from_bit(d, attacker_index)
      attacker_square == square_of_piece(d, attacker_index)
      attacker_direction == direction(attacker_square, king_square)
      pininfo == discover_pinned_pieces(b)
  IN PushCheckerCaptures(b, BitlistIter(attacks_to(d, attacker_square, b.side)), 1,
                         attacker_square, pininfo)
       \o (IF attacker_piece \in {"Bishop", "Rook", "Queen"}
           THEN PushBlocks(b,
                  ray_attacks(king_square, direction(king_square, attacker_square)), 1,
                  attacker_square, pininfo)
           ELSE <<>>)
       \o PushKingEvasions1(b, king_attacks(king_square), 1, king_square, attacker_square,
                            attacker_direction, attacker_piece)

\* Board::generate_single_check
generate_single_check(b) ==
  LET d == b.data
      king_square == square_of_piece(d, king_index_of(b, b.side))
      attacker_index == peek(attacks_to(d, king_square, OtherColour(b.side)))
      attacker_piece == piece_from_bit(d, attacker_index)
      attacker_square == square_of_piece(d, attacker_index)
      attacker_direction == direction(attacker_square, king_square)
      pininfo == discover_pinned_pieces(b)
      ep_south == IF b.ep = None THEN None ELSE relative_south(b.ep, b.side)
  IN PushCheckerCaptures(b, BitlistIter(attacks_to(d, attacker_square, b.side)), 1,
                         attacker_square, pininfo)
       \o (IF b.ep # None /\ ep_south # None /\ ep_south = attacker_square
              /\ attacker_piece = "Pawn"
           THEN PushEach(b,
                  BitlistIter((attacks_to(d, b.ep, b.side) \cap pawns(d))
                                \ pininfo.enpassant_pinned),
                  1, b.ep, "EnPassant", pininfo)
           ELSE <<>>)
       \o (IF attacker_piece \in {"Bishop", "Rook", "Queen"}
           THEN PushBlocks(b,
                  ray_attacks(king_square, direction(king_square, attacker_square)), 1,
                  attacker_square, pininfo)
           ELSE <<>>)
       \o PushKingEvasions1(b, king_attacks(king_square), 1, king_square, attacker_square,
                            attacker_direction, attacker_piece)

\* The king moves of generate_double_check.
RECURSIVE PushKingEvasions2(_, _, _, _, _, _, _, _)
PushKingEvasions2(b, squares, i, king_square, attacker1_direction, attacker1_piece, attacker2_direction, attacker2_piece) ==
  IF i > Len(squares) THEN <<>>
  ELSE LET d == b.data
           square == squares[i]
           skip == \/ (has_piece(d, square) /\ colour_from_square(d, square) = b.side)
                   \/ attacks_to(d, square, OtherColour(b.side)) # {}
                   \/ IsXray(king_square, attacker1_direction, attacker1_piece, square)
                   \/ IsXray(king_square, attacker2_direction, attacker2_piece, square)
           kind == IF has_piece(d, square) THEN "Capture" ELSE "Normal"
       IN (IF skip THEN <<>> ELSE <<Move_new(king_square, square, kind, NoPiece)>>)
            \o PushKingEvasions2(b, squares, i + 1, king_square, attacker1_direction,
                                 attacker1_piece, attacker2_direction, attacker2_piece)

\* Board::generate_double_check
generate_double_check(b) ==
  LET d == b.data
      king_square == square_of_piece(d, king_index_of(b, b.side))
      attacker_bits == attacks_to(d, king_square, OtherColour(b.side))
      attacker1_index == peek(attacker_bits)
      attacker2_index == peek(attacker_bits \ {attacker1_index})
  IN PushKingEvasions2(b, king_attacks(king_square), 1, king_square,
       direction(square_of_piece(d, attacker1_index), king_square),
       piece_from_bit(d, attacker1_index),
       direction(square_of_piece(d, attacker2_index), king_square),
       piece_from_bit(d, attacker2_index))

\* for pawn in pawns & mask_from_colour(side) { generate_pawn_quiet(...) }
RECURSIVE PushPawnQuiets(_, _, _, _)
PushPawnQuiets(b, pawn_bits, i, pininfo) ==
  IF i > Len(pawn_bits) THEN <<>>
  ELSE generate_pawn_quiet(b, square_of_piece(b.data, pawn_bits[i]), pininfo)
         \o PushPawnQuiets(b, pawn_bits, i + 1, pininfo)

\* The attackers of one empty square in the general quiet move loop.
RECURSIVE PushQuietsTo(_, _, _, _, _)
PushQuietsTo(b, attackers, i, dest, pininfo) ==
  IF i > Len(attackers) THEN <<>>
  ELSE LET d == b.data
           attacker == attackers[i]
       IN (IF piece_from_bit(d, attacker) = "King"
              /\ attacks_to(d, dest, OtherColour(b.side)) # {}
           THEN <<>>
           ELSE try_push_move(b, square_of_piece(d, attacker), dest, "Normal", NoPiece,
                              pininfo))
            \o PushQuietsTo(b, attackers, i + 1, dest, pininfo)

\* The general quiet move loop, for dest in lo..hi ascending (the source's
\* for dest in 0..64), split in halves to keep the evaluation shallow.
RECURSIVE PushQuiets(_, _, _, _)
PushQuiets(b, lo, hi, pininfo) ==
  IF lo = hi
  THEN IF has_piece(b.data, lo) THEN <<>>
       ELSE PushQuietsTo(b, BitlistIter(attacks_to(b.data, lo, b.side) \ pawns(b.data)), 1,
                         lo, pininfo)
  ELSE LET mid == (lo + hi) \div 2
       IN PushQuiets(b, lo, mid, pininfo) \o PushQuiets(b, mid + 1, hi, pininfo)

\* A kingside castling block that forgets the attack test on the square the
\* king crosses.
generate_castle_kingside_NoCrossTest(b, king_square, pininfo) ==
  LET d == b.data
      enemy == OtherColour(b.side)
      east1 == east(king_square)
      east2 == east(east1)
  IN IF (b.side = White /\ b.castle[1]) \/ (b.side = Black /\ b.castle[3])
     THEN IF attacks_to(d, king_square, enemy) = {}
             /\ ~has_piece(d, east1)
             /\ ~has_piece(d, east2)
             /\ attacks_to(d, east2, enemy) = {}
          THEN try_push_move(b, king_square, east2, "Castle", NoPiece, pininfo)
          ELSE <<>>
     ELSE <<>>

\* The kingside castling block of Board::generate.
generate_castle_kingside(b, king_square, pininfo) ==
  LET d == b.data
      enemy == OtherColour(b.side)
      east1 == east(king_square)
      east2 == east(east1)
  IN IF (b.side = White /\ b.castle[1]) \/ (b.side = Black /\ b.castle[3])
     THEN IF attacks_to(d, king_square, enemy) = {}
             /\ ~has_piece(d, east1)
             /\ attacks_to(d, east1, enemy) = {}
             /\ ~has_piece(d, east2)
             /\ attacks_to(d, east2, enemy) = {}
          THEN try_push_move(b, king_square, east2, "Castle", NoPiece, pininfo)
          ELSE <<>>
     ELSE <<>>

\* A queenside castling block that also wants the third square west of the
\* king free of attacks.
generate_castle_queenside_WestThreeSafe(b, king_square, pininfo) ==
  LET d == b.data
      enemy == OtherColour(b.side)
      west1 == west(king_square)
      west2 == west(west1)
      west3 == west(west2)
  IN IF (b.side = White /\ b.castle[2]) \/ (b.side = Black /\ b.castle[4])
     THEN IF attacks_to(d, king_square, enemy) = {}
             /\ ~has_piece(d, west1)
             /\ attacks_to(d, west1, enemy) = {}
             /\ ~has_piece(d, west2)
             /\ attacks_to(d, west2, enemy) = {}
             /\ ~has_piece(d, west3)
             /\ attacks_to(d, west3, enemy) = {}
          THEN try_push_move(b, king_square, west2, "Castle", NoPiece, pininfo)
          ELSE <<>>
     ELSE <<>>

\* The queenside castling block of Board::generate.
generate_castle_queenside(b, king_square, pininfo) ==
  LET d == b.data
      enemy == OtherColour(b.side)
      west1 == west(king_square)
      west2 == west(west1)
      west3 == west(west2)
  IN IF (b.side = White /\ b.castle[2]) \/ (b.side = Black /\ b.castle[4])
     THEN IF attacks_to(d, king_square, enemy) = {}
             /\ ~has_piece(d, west1)
             /\ attacks_to(d, west1, enemy) = {}
             /\ ~has_piece(d, west2)
             /\ attacks_to(d, west2, enemy) = {}
             /\ ~has_piece(d, west3)
          THEN try_push_move(b, king_square, west2, "Castle", NoPiece, pininfo)
          ELSE <<>>
     ELSE <<>>

\* Board::generate: the move list it fills.
generate(b) ==
  LET d == b.data
      king_square == square_of_piece(d, king_index_of(b, b.side))
      checks == attacks_to(d, king_square, OtherColour(b.side))
  IN IF Cardinality(checks) = 1 THEN generate_single_check(b)
     ELSE IF Cardinality(checks) = 2 THEN generate_double_check(b)
     ELSE LET pininfo == discover_pinned_pieces(b)
          IN generate_captures(b)
               \o PushPawnQuiets(b, BitlistIter(pawns(d) \cap mask_from_colour(b.side)), 1,
                                 pininfo)
               \o PushQuiets(b, 0, 63, pininfo)
               \o generate_castle_kingside(b, king_square, pininfo)
               \o generate_castle_queenside(b, king_square, pininfo)

\* The unwraps and expects of Board::generate that abort instead of returning:
\* no king for the side to move, or a castling right whose king has no
\* east / west neighbours to unwrap.
generate_panic(b) ==
  LET king_index == king_index_of(b, b.side)
      king_square == square_of_piece(b.data, king_index)
      checks == attacks_to(b.data, king_square, OtherColour(b.side))
      ks == (b.side = White /\ b.castle[1]) \/ (b.side = Black /\ b.castle[3])
      qs == (b.side = White /\ b.castle[2]) \/ (b.side = Black /\ b.castle[4])
  IN IF king_index = None THEN "side to move has no king"
     ELSE IF Cardinality(checks) \in {1, 2} THEN NoPanic
     ELSE IF ks /\ FileOf(king_square) > 5 THEN "castle: unwrap on None"
     ELSE IF qs /\ FileOf(king_square) < 3 THEN "castle: unwrap on None"
     ELSE NoPanic

(***************************************************************************)
(* Board::from_fen_bytes.  A FEN is a sequence of ASCII codes; idx counts  *)
(* from 0 as in the source, and every fen[idx] beyond the end aborts.      *)
(***************************************************************************)

\* fen[idx], or None where the index is out of bounds.
ByteAt(fen, idx) == IF idx < Len(fen) THEN fen[idx + 1] ELSE None

\* idx += n; c = fen[idx];
Advance(st, fen, n) ==
  IF st.status # "ok" THEN st
  ELSE IF ByteAt(fen, st.idx + n) = None
       THEN [st EXCEPT !.status = "panic", !.idx = st.idx + n]
       ELSE [st EXCEPT !.idx = st.idx + n, !.c = ByteAt(fen, st.idx + n)]

\* c.to_ascii_lowercase() matched against the six piece letters.
PieceOfLetter(c) ==
  LET lower == IF c >= 65 /\ c <= 90 THEN c + 32 ELSE c
  IN CASE lower = 107 -> "King"
       [] lower = 113 -> "Queen"
       [] lower = 114 -> "Rook"
       [] lower = 98 -> "Bishop"
       [] lower = 110 -> "Knight"
       [] lower = 112 -> "Pawn"
       [] OTHER -> NoPiece

\* b.data.add_piece(piece, colour, square, false) inside the parser's state.
Placed(st, d1) ==
  IF d1.panic # NoPanic THEN [st EXCEPT !.status = "panic", !.data = d1]
  ELSE [st EXCEPT !.data = d1]

\* The placement loops: for rank in (0..=7).rev() { while file <= 7 { ... } }
RECURSIVE ParsePlacement(_, _, _, _)
ParsePlacement(fen, rank, file, st) ==
  IF st.status # "ok" THEN st
  ELSE IF file <= 7
       THEN IF st.c >= 49 /\ st.c <= 56
            THEN ParsePlacement(fen, rank, file + (st.c - 48), Advance(st, fen, 1))
            ELSE IF PieceOfLetter(st.c) = NoPiece THEN [st EXCEPT !.status = "none"]
            ELSE ParsePlacement(fen, rank, file + 1,
                   Advance(
                     Placed(st,
                       add_piece(st.data, PieceOfLetter(st.c),
                                 IF st.c >= 65 /\ st.c <= 90 THEN White ELSE Black,
                                 from_rank_file(rank, file), FALSE)),
                     fen, 1))
       ELSE IF rank > 0 THEN ParsePlacement(fen, rank - 1, 0, Advance(st, fen, 1))
            ELSE st

\* b.side = match c { b'w' => White, b'b' => Black, _ => return None }
SideField(st) ==
  IF st.status # "ok" THEN st
  ELSE IF st.c = 119 THEN [st EXCEPT !.side = White]
  ELSE IF st.c = 98 THEN [st EXCEPT !.side = Black]
  ELSE [st EXCEPT !.status = "none"]

ParseSide(fen, st) == SideField(Advance(st, fen, 1))

\* if c == letter { b.castle.k = true; idx += 1; c = fen[idx]; } (the last of
\* the four does not read fen[idx]).
CastleFlag(fen, st, letter, k, is_last) ==
  IF st.status = "ok" /\ st.c = letter
  THEN IF is_last THEN [st EXCEPT !.castle[k] = TRUE, !.idx = @ + 1]
       ELSE Advance([st EXCEPT !.castle[k] = TRUE], fen, 1)
  ELSE st

\* The castling field: '-' or the letters K, Q, k, q tested in that order.
CastleField(fen, st) ==
  IF st.status # "ok" THEN st
  ELSE IF st.c = 45 THEN [st EXCEPT !.idx = @ + 1]
  ELSE CastleFlag(fen,
         CastleFlag(fen,
           CastleFlag(fen, CastleFlag(fen, st, 75, 1, FALSE), 81, 2, FALSE),
           107, 3, FALSE),
         113, 4, TRUE)

ParseCastle(fen, st) == CastleField(fen, Advance(st, fen, 2))

\* let rank = Rank::try_from(c - b'1').unwrap();
EpRank(st, file) ==
  IF st.status # "ok" THEN st
  ELSE IF st.c - 49 < 0 \/ st.c - 49 > 7 THEN [st EXCEPT !.status = "panic"]
  ELSE [st EXCEPT !.ep = from_rank_file(st.c - 49, file)]

\* The en-passant field: '-' or a file letter and a rank digit, each unwrapped.
EpField(fen, st) ==
  IF st.status # "ok" THEN st
  ELSE IF st.c = 45 THEN st
  ELSE IF st.c - 97 < 0 \/ st.c - 97 > 7 THEN [st EXCEPT !.status = "panic"]
  ELSE EpRank(Advance(st, fen, 1), st.c - 97)

ParseEp(fen, st) == EpField(fen, Advance(st, fen, 1))

\* b.data.rebuild_attacks(); Some(b)
FenBoard(st, d) ==
  IF d.panic # NoPanic THEN [status |-> "panic", board |-> Board_new]
  ELSE [status |-> "ok",
        board |-> [data |-> d, side |-> st.side, castle |-> st.castle, ep |-> st.ep]]

FenResult(st) ==
  IF st.status # "ok" THEN [status |-> st.status, board |-> Board_new]
  ELSE FenBoard(st, rebuild_attacks(st.data))

\* let mut b = Self::new(); let mut idx = 0; let mut c = fen[idx];
FenStart(fen) ==
  Advance([idx |-> 0, c |-> None, data |-> BoardData_new, status |-> "ok",
           side |-> White, castle |-> <<FALSE, FALSE, FALSE, FALSE>>, ep |-> None],
          fen, 0)

\* Board::from_fen_bytes: [status, board] with status "ok" (Some(board)), "none"
\* (None) or "panic" (the call aborts).
from_fen_bytes(fen) ==
  FenResult(ParseEp(fen, ParseCastle(fen, ParseSide(fen, ParsePlacement(fen, 7, 0, FenStart(fen))))))

(***************************************************************************)
(* The rules of chess on a plain mailbox (square -> piece and colour),     *)
(* written from the rules and not from the attack tables: the yardstick    *)
(* the generator and the attack sets are compared with.                    *)
(***************************************************************************)

Abs(x) == IF x < 0 THEN 0 - x ELSE x
Sgn(x) == IF x < 0 THEN 0 - 1 ELSE IF x > 0 THEN 1 ELSE 0
Range(s) == {s[i] : i \in 1..Len(s)}

NoColour == "NoColour"
EmptySquare == [piece |-> NoPiece, colour |-> NoColour]

\* What stands on each square, read off the square index and the piece mask.
Mailbox(d) ==
  [s \in Squares |->
     IF d.index[s] = None THEN EmptySquare
     ELSE [piece |-> Piecemask_piece(d.piecemask, d.index[s]),
           colour |-> ColourOf(d.index[s])]]

\* The squares strictly between two squares of one rank, file or diagonal.
RefBetween(from, dest) ==
  LET dr == RankOf(dest) - RankOf(from)
      df == FileOf(dest) - FileOf(from)
      n == IF Abs(dr) > Abs(df) THEN Abs(dr) ELSE Abs(df)
  IN {8 * (RankOf(from) + k * Sgn(dr)) + FileOf(from) + k * Sgn(df) : k \in 1..(n - 1)}

RefClear(pos, from, dest) ==
  \A s \in RefBetween(from, dest) : pos[s].piece = NoPiece

\* The piece on from attacks dest, by the attack pattern of its type.
RefAttacksFrom(pos, from, dest) ==
  LET p == pos[from].piece
      dr == RankOf(dest) - RankOf(from)
      df == FileOf(dest) - FileOf(from)
  IN CASE p = "Pawn" ->
            dr = (IF pos[from].colour = White THEN 1 ELSE 0 - 1) /\ Abs(df) = 1
       [] p = "Knight" -> {Abs(dr), Abs(df)} = {1, 2}
       [] p = "King" -> from # dest /\ Abs(dr) <= 1 /\ Abs(df) <= 1
       [] p = "Bishop" -> from # dest /\ Abs(dr) = Abs(df) /\ RefClear(pos, from, dest)
       [] p = "Rook" -> from # dest /\ (dr = 0 \/ df = 0) /\ RefClear(pos, from, dest)
       [] p = "Queen" ->
            from # dest /\ (dr = 0 \/ df = 0 \/ Abs(dr) = Abs(df))
              /\ RefClear(pos, from, dest)
       [] OTHER -> FALSE

\* Some piece of the colour attacks the square.
RefAttacked(pos, square, colour) ==
  \E from \in Squares : pos[from].colour = colour /\ RefAttacksFrom(pos, from, square)

RefKingSquares(pos, colour) ==
  {s \in Squares : pos[s] = [piece |-> "King", colour |-> colour]}

RefInCheck(pos, colour) ==
  \E s \in RefKingSquares(pos, colour) : RefAttacked(pos, s, OtherColour(colour))

PromotionPieces == {"Queen", "Rook", "Bishop", "Knight"}

RefForward(colour) == IF colour = White THEN 8 ELSE 0 - 8
RefLastRank(colour) == IF colour = White THEN 7 ELSE 0
RefPawnRank(colour) == IF colour = White THEN 1 ELSE 6

\* Moves of knights, bishops, rooks, queens and kings, castling aside.
RefPieceMoves(pos, colour) ==
  {Move_new(x[1], x[2], IF pos[x[2]].piece = NoPiece THEN "Normal" ELSE "Capture", NoPiece) :
     x \in {y \in Squares \X Squares :
              /\ pos[y[1]].colour = colour
              /\ pos[y[1]].piece # "Pawn"
              /\ pos[y[2]].colour # colour
              /\ RefAttacksFrom(pos, y[1], y[2])}}

RefPawnSquares(pos, colour) ==
  {s \in Squares : pos[s] = [piece |-> "Pawn", colour |-> colour]}

\* A pawn move to the last rank is four moves, one per promotion piece.
RefPawnMove(from, dest, colour, plain, promoting) ==
  IF RankOf(dest) = RefLastRank(colour)
  THEN {Move_new(from, dest, promoting, p) : p \in PromotionPieces}
  ELSE {Move_new(from, dest, plain, NoPiece)}

RefPawnPushes(pos, colour) ==
  UNION {LET dest == from + RefForward(colour)
             dest2 == dest + RefForward(colour)
         IN IF dest \notin Squares \/ pos[dest].piece # NoPiece THEN {}
            ELSE RefPawnMove(from, dest, colour, "Normal", "Promotion")
                   \cup (IF RankOf(from) = RefPawnRank(colour) /\ pos[dest2].piece = NoPiece
                         THEN {Move_new(from, dest2, "DoublePush", NoPiece)}
                         ELSE {}) :
         from \in RefPawnSquares(pos, colour)}

RefPawnCaptures(pos, colour) ==
  UNION {UNION {RefPawnMove(from, dest, colour, "Capture", "CapturePromotion") :
                dest \in {s \in Squares : /\ pos[s].colour = OtherColour(colour)
                                          /\ RefAttacksFrom(pos, from, s)}} :
         from \in RefPawnSquares(pos, colour)}

RefEnPassant(pos, colour, ep_square) ==
  IF ep_square = None THEN {}
  ELSE {Move_new(from, ep_square, "EnPassant", NoPiece) :
          from \in {s \in RefPawnSquares(pos, colour) : RefAttacksFrom(pos, s, ep_square)}}

\* Castling: right kept, king and rook at home, the squares between empty,
\* the king's square, the square it crosses and the one it lands on unattacked.
RefCastles(pos, colour, rights) ==
  LET k == IF colour = White THEN 4 ELSE 60
      kingside == IF colour = White THEN rights[1] ELSE rights[3]
      queenside == IF colour = White THEN rights[2] ELSE rights[4]
      king == [piece |-> "King", colour |-> colour]
      rook == [piece |-> "Rook", colour |-> colour]
      free(s) == pos[s].piece = NoPiece
      safe(s) == ~RefAttacked(pos, s, OtherColour(colour))
  IN (IF kingside /\ pos[k] = king /\ pos[k + 3] = rook /\ free(k + 1) /\ free(k + 2)
         /\ safe(k) /\ safe(k + 1) /\ safe(k + 2)
      THEN {Move_new(k, k + 2, "Castle", NoPiece)} ELSE {})
     \cup
     (IF queenside /\ pos[k] = king /\ pos[k - 4] = rook
         /\ free(k - 1) /\ free(k - 2) /\ free(k - 3)
         /\ safe(k) /\ safe(k - 1) /\ safe(k - 2)
      THEN {Move_new(k, k - 2, "Castle", NoPiece)} ELSE {})

RefPseudoMoves(b) ==
  LET pos == Mailbox(b.data)
  IN RefPieceMoves(pos, b.side) \cup RefPawnPushes(pos, b.side)
       \cup RefPawnCaptures(pos, b.side) \cup RefEnPassant(pos, b.side, b.ep)
       \cup RefCastles(pos, b.side, b.castle)

\* The mailbox after a move.
RefApply(pos, colour, m) ==
  LET moved == IF m.prom # NoPiece THEN [piece |-> m.prom, colour |-> colour]
               ELSE pos[m.from]
      base == [pos EXCEPT ![m.from] = EmptySquare, ![m.dest] = moved]
  IN CASE m.kind = "EnPassant" -> [base EXCEPT ![m.dest - RefForward(colour)] = EmptySquare]
       [] m.kind = "Castle" /\ m.dest > m.from ->
            [base EXCEPT ![m.from + 3] = EmptySquare, ![m.from + 1] = pos[m.from + 3]]
       [] m.kind = "Castle" /\ m.dest < m.from ->
            [base EXCEPT ![m.from - 4] = EmptySquare, ![m.from - 1] = pos[m.from - 4]]
       [] OTHER -> base

\* The strictly legal moves: those that do not leave the mover's king attacked.
RefLegalMoves(b) ==
  LET pos == Mailbox(b.data)
  IN {m \in RefPseudoMoves(b) : ~RefInCheck(RefApply(pos, b.side, m), b.side)}

\* "K7/4P3/8/8/8/8/8/k6r b - - 0 1"
FenBlockPromotion ==
  <<75, 55, 47, 52, 80, 51, 47, 56, 47, 56, 47, 56, 47, 56, 47, 56, 47, 107, 54, 114,
    32, 98, 32, 45, 32, 45, 32, 48, 32, 49>>

\* "4k2r/8/8/8/8/8/8/4K2R w Kk - 0 1"
FenCastle ==
  <<52, 107, 50, 114, 47, 56, 47, 56, 47, 56, 47, 56, 47, 56, 47, 56, 47, 52, 75, 50,
    82, 32, 119, 32, 75, 107, 32, 45, 32, 48, 32, 49>>

\* "4k3/8/8/8/8/3n4/p2R4/1N2K3 w - - 0 1"
FenPromoteAfterCapture ==
  <<52, 107, 51, 47, 56, 47, 56, 47, 56, 47, 56, 47, 51, 110, 52, 47, 112, 50, 82, 52,
    47, 49, 78, 50, 75, 51, 32, 119, 32, 45, 32, 45, 32, 48, 32, 49>>

\* "4k3/8/8/8/3pP3/8/8/4K3 b - e3 0 1"
FenEnPassant ==
  <<52, 107, 51, 47, 56, 47, 56, 47, 56, 47, 51, 112, 80, 51, 47, 56, 47, 56, 47, 52,
    75, 51, 32, 98, 32, 45, 32, 101, 51, 32, 48, 32, 49>>

\* "8/8/8/8/1k1p3R/8/4P3/4K3 w - - 0 1"
FenEnPassantPin ==
  <<56, 47, 56, 47, 56, 47, 56, 47, 49, 107, 49, 112, 51, 82, 47, 56, 47, 52, 80, 51,
    47, 52, 75, 51, 32, 119, 32, 45, 32, 45, 32, 48, 32, 49>>

\* "4k3/4r3/8/8/8/8/4R3/4K3 w - - 0 1"
FenPin ==
  <<52, 107, 51, 47, 52, 114, 51, 47, 56, 47, 56, 47, 56, 47, 56, 47, 52, 82, 51, 47,
    52, 75, 51, 32, 119, 32, 45, 32, 45, 32, 48, 32, 49>>

\* "4k3/8/5N2/8/8/8/8/4RK2 b - - 0 1"
FenDoubleCheck ==
  <<52, 107, 51, 47, 56, 47, 53, 78, 50, 47, 56, 47, 56, 47, 56, 47, 56, 47, 52, 82,
    75, 50, 32, 98, 32, 45, 32, 45, 32, 48, 32, 49>>

\* "8/8/8/4b3/8/2R5/8/8 w - - 0 1"
FenSliders ==
  <<56, 47, 56, 47, 56, 47, 52, 98, 51, 47, 56, 47, 50, 82, 53, 47, 56, 47, 56, 32,
    119, 32, 45, 32, 45, 32, 48, 32, 49>>

\* "r3k2r/8/8/8/8/8/8/R3K2R w KQkq - 0 1"
FenCastleBoth ==
  <<114, 51, 107, 50, 114, 47, 56, 47, 56, 47, 56, 47, 56, 47, 56, 47, 56, 47, 82, 51,
    75, 50, 82, 32, 119, 32, 75, 81, 107, 113, 32, 45, 32, 48, 32, 49>>

\* "rnbqkbnr/pppppppp/8/8/8/8/PPPPPPPP/RNBQKBNR w KQkq - 0 1"
FenInitial ==
  <<114, 110, 98, 113, 107, 98, 110, 114, 47, 112, 112, 112, 112, 112, 112, 112, 112, 47, 56, 47,
    56, 47, 56, 47, 56, 47, 80, 80, 80, 80, 80, 80, 80, 80, 47, 82, 78, 66, 81, 75,
    66, 78, 82, 32, 119, 32, 75, 81, 107, 113, 32, 45, 32, 48, 32, 49>>

\* "PPPPPPPP/PPPPPPPP/P7/8/8/8/8/k6K w - - 0 1"
FenSeventeen ==
  <<80, 80, 80, 80, 80, 80, 80, 80, 47, 80, 80, 80, 80, 80, 80, 80, 80, 47, 80, 55,
    47, 56, 47, 56, 47, 56, 47, 56, 47, 107, 54, 75, 32, 119, 32, 45, 32, 45, 32, 48,
    32, 49>>

\* "8/8/8/3k4/3p4/8/4P3/4K3 w - - 0 1"
FenEnPassantCheck ==
  <<56, 47, 56, 47, 56, 47, 51, 107, 52, 47, 51, 112, 52, 47, 56, 47, 52, 80, 51, 47,
    52, 75, 51, 32, 119, 32, 45, 32, 45, 32, 48, 32, 49>>

\* "8/2p5/3p4/KP5r/1R3p1k/8/4P1P1/8 w - - 0 1"
FenRankPin ==
  <<56, 47, 50, 112, 53, 47, 51, 112, 52, 47, 75, 80, 53, 114, 47, 49, 82, 51, 112, 49,
    107, 47, 56, 47, 52, 80, 49, 80, 49, 47, 56, 32, 119, 32, 45, 32, 45, 32, 48, 32,
    49>>

\* "8/4k3/8/3N4/8/8/8/4RK2 b - - 0 1"
FenDoubleCheckXray ==
  <<56, 47, 52, 107, 51, 47, 56, 47, 51, 78, 52, 47, 56, 47, 56, 47, 56, 47, 52, 82,
    75, 50, 32, 98, 32, 45, 32, 45, 32, 48, 32, 49>>

\* "k3r3/8/8/8/7b/3n4/P7/4K3 w - - 0 1"
FenTripleCheck ==
  <<107, 51, 114, 51, 47, 56, 47, 56, 47, 56, 47, 55, 98, 47, 51, 110, 52, 47, 80, 55,
    47, 52, 75, 51, 32, 119, 32, 45, 32, 45, 32, 48, 32, 49>>

\* "k3q3/8/8/b7/4R2b/2N3p1/5P2/rBN1K3 w - - 0 1"
FenPins ==
  <<107, 51, 113, 51, 47, 56, 47, 56, 47, 98, 55, 47, 52, 82, 50, 98, 47, 50, 78, 51,
    112, 49, 47, 53, 80, 50, 47, 114, 66, 78, 49, 75, 51, 32, 119, 32, 45, 32, 45, 32,
    48, 32, 49>>

\* "8/8/8/3k4/3p1p2/8/4P3/3RK3 w - - 0 1"
FenEnPassantEvasion ==
  <<56, 47, 56, 47, 56, 47, 51, 107, 52, 47, 51, 112, 49, 112, 50, 47, 56, 47, 52, 80,
    51, 47, 51, 82, 75, 51, 32, 119, 32, 45, 32, 45, 32, 48, 32, 49>>

\* "7k/8/8/p7/6pp/PPPPPPPP/1PPPPPPP/K7 w - - 0 1"
FenFullHouse ==
  <<55, 107, 47, 56, 47, 56, 47, 112, 55, 47, 54, 112, 112, 47, 80, 80, 80, 80, 80, 80,
    80, 80, 47, 49, 80, 80, 80, 80, 80, 80, 80, 47, 75, 55, 32, 119, 32, 45, 32, 45,
    32, 48, 32, 49>>

\* "k3r3/8/8/8/7b/3n4/P7/4K2R w K - 0 1"
FenTripleCheckCastle ==
  <<107, 51, 114, 51, 47, 56, 47, 56, 47, 56, 47, 55, 98, 47, 51, 110, 52, 47, 80, 55,
    47, 52, 75, 50, 82, 32, 119, 32, 75, 32, 45, 32, 48, 32, 49>>

\* "4k3/8/8/8/8/8/8/r3K2R b K - 0 1"
FenKingEnPrise ==
  <<52, 107, 51, 47, 56, 47, 56, 47, 56, 47, 56, 47, 56, 47, 56, 47, 114, 51, 75, 50,
    82, 32, 98, 32, 75, 32, 45, 32, 48, 32, 49>>

\* "8/3p4/8/R6k/8/8/8/4K3 b - - 0 1"
FenDoublePushBlock ==
  <<56, 47, 51, 112, 52, 47, 56, 47, 82, 54, 107, 47, 56, 47, 56, 47, 56, 47, 52, 75,
    51, 32, 98, 32, 45, 32, 45, 32, 48, 32, 49>>

(***************************************************************************)
(* The state: the fields of one Board (data, side, castle, ep), the client *)
(* driving it, the last operation applied and the operations so far.       *)
(* The client "perft" is the loop of perft in lib.rs: generate, then make  *)
(* of a generated move.  The client "data" calls BoardData's public        *)
(* mutations directly.  The client "fen" calls Board::from_fen on the text  *)
(* in fen; parsed is what the call gave: "ok" (Some), "none" (None),       *)
(* "panic" (the call aborted), "pending" before the call.  count is what   *)
(* a call of perft returned, and the depth it was called with.  score is  *)
(* the evaluation the client "search" carries along the line it plays.     *)
(***************************************************************************)

VARIABLES data, side, castle, ep, client, last, ply, steps, fen, parsed, count, score

vars == <<data, side, castle, ep, client, last, ply, steps, fen, parsed, count, score>>

\* The Board the variables hold.
board == [data |-> data, side |-> side, castle |-> castle, ep |-> ep]

\* The plies perft descends.
MaxPly == 2
\* The calls the data client makes, and the pieces it puts on the board.
MaxSteps == 3
MaxPieces == 3

\* No call of perft has returned.
NoCount == [depth |-> None, nodes |-> 0]

NoMove ==
  [op |-> "none", from |-> None, dest |-> None, kind |-> "None", prom |-> NoPiece,
   index |-> None, colour |-> "NoColour"]

StartFens ==
  {FenBlockPromotion, FenCastle, FenPromoteAfterCapture, FenEnPassant, FenEnPassantPin,
   FenEnPassantCheck, FenPin, FenDoubleCheck}

\* The squares and pieces the data client uses: c3 and d3 on a rank, c3, d4
\* and e5 on a diagonal, d3 and d4 on a file, d3 and e5 a knight's move apart.
DataSquares == {18, 19, 27, 36}

DataPieces ==
  {<<"Pawn", White>>, <<"Knight", White>>, <<"Bishop", Black>>, <<"Rook", White>>,
   <<"Queen", Black>>}

InitFrom(fens, who) ==
  \E text \in fens :
    LET r == from_fen_bytes(text)
    IN /\ r.status = "ok"
       /\ fen = text
       /\ parsed = "ok"
       /\ data = r.board.data
       /\ side = r.board.side
       /\ castle = r.board.castle
       /\ ep = r.board.ep
       /\ client = who
       /\ last = NoMove
       /\ ply = 0
       /\ steps = 0
       /\ count = NoCount
       /\ score = 0

\* Board::from_fen on one of the start positions.
Init == InitFrom(StartFens, "perft")

\* The successor Board::make returns becomes the board of the next ply.
MakeResult(m, index, b2) ==
  /\ data' = b2.data
  /\ side' = b2.side
  /\ castle' = b2.castle
  /\ ep' = b2.ep
  /\ last' = [op |-> "make", from |-> m.from, dest |-> m.dest, kind |-> m.kind,
              prom |-> m.prom, index |-> index, colour |-> side]

\* One ply of perft: board.generate(&mut moves), then board.make(m) for one of
\* the moves; the program aborts where generate or make does.
Make ==
  /\ client = "perft"
  /\ ply < MaxPly
  /\ data.panic = NoPanic
  /\ IF generate_panic(board) # NoPanic
     THEN /\ data' = Fail(data, generate_panic(board))
          /\ UNCHANGED <<side, castle, ep>>
          /\ last' = [NoMove EXCEPT !.op = "generate"]
     ELSE \E m \in Range(generate(board)) :
            MakeResult(m, piece_index_at(data, m.from), make(board, m))
  /\ ply' = ply + 1
  /\ UNCHANGED <<client, steps, fen, parsed, count, score>>

Next == Make

Spec == Init /\ [][Next]_vars

(***************************************************************************)
(* The data client: BoardData's mutations on an empty BoardData or on one  *)
(* from_fen has built, each within its stated precondition.                *)
(***************************************************************************)

InitData ==
  \/ Init
  \/ InitFrom({FenSliders}, "data")
  \/ /\ data = BoardData_new
     /\ side = White
     /\ castle = <<FALSE, FALSE, FALSE, FALSE>>
     /\ ep = None
     /\ client = "data"
     /\ last = NoMove
     /\ ply = 0
     /\ steps = 0
     /\ count = NoCount
     /\ score = 0
     /\ fen = <<>>
     /\ parsed = "pending"

DataStep ==
  /\ client = "data"
  /\ steps < MaxSteps
  /\ data.panic = NoPanic
  /\ steps' = steps + 1
  /\ UNCHANGED <<side, castle, ep, client, ply, fen, parsed, count, score>>

\* data.add_piece(piece, colour, square, true) onto an empty square.
AddPiece ==
  /\ DataStep
  /\ Cardinality(pieces(data)) < MaxPieces
  /\ \E pc \in DataPieces, square \in DataSquares :
       /\ ~has_piece(data, square)
       /\ data' = add_piece(data, pc[1], pc[2], square, TRUE)
       /\ last' = [NoMove EXCEPT !.op = "add_piece", !.dest = square, !.prom = pc[1],
                                 !.colour = pc[2],
                                 !.index = piece_index_at(data', square)]

\* data.remove_piece(piece_index, true) of a live identity.
RemovePiece ==
  /\ DataStep
  /\ \E piece_index \in pieces(data) :
       /\ data' = remove_piece(data, piece_index, TRUE)
       /\ last' = [NoMove EXCEPT !.op = "remove_piece", !.index = piece_index,
                                 !.from = square_of_piece(data, piece_index)]

\* data.move_piece(from_square, to_square) onto an empty square.
MovePiece ==
  /\ DataStep
  /\ \E from_square \in DataSquares, to_square \in DataSquares :
       /\ has_piece(data, from_square)
       /\ ~has_piece(data, to_square)
       /\ data' = move_piece(data, from_square, to_square)
       /\ last' = [NoMove EXCEPT !.op = "move_piece", !.from = from_square,
                                 !.dest = to_square,
                                 !.index = piece_index_at(data, from_square)]

\* data.rebuild_attacks()
RebuildAttacks ==
  /\ DataStep
  /\ data' = rebuild_attacks(data)
  /\ last' = [NoMove EXCEPT !.op = "rebuild_attacks"]

NextData == Make \/ AddPiece \/ RemovePiece \/ MovePiece \/ RebuildAttacks

SpecData == InitData /\ [][NextData]_vars

(***************************************************************************)
(* The claims.                                                             *)
(***************************************************************************)

Sliders(d) == bishops(d) \cup rooks(d) \cup queens(d)

\* The king's square of the side to move, and the moves generate emits.
KingSquare == square_of_piece(data, king_index_of(board, side))
Generated == Range(generate(board))

\* generate returns: neither it nor an earlier call has aborted.
CanGenerate ==
  client = "perft" /\ data.panic = NoPanic /\ generate_panic(board) = NoPanic

\* C1: after every sequence of add_piece(update = true) onto an empty square,
\* remove_piece(update = true) of a live identity and move_piece onto an empty
\* square, from the empty BoardData or from one rebuild_attacks has just
\* built, and after every make of a generated move, no call has aborted and
\* the incrementally maintained attack sets equal, square by square, those
\* rebuild_attacks computes from the same piece mask, piece list and index.
IncrementalEqualsRebuild ==
  data.panic = NoPanic /\ data.bitlist = rebuild_attacks(data).bitlist

\* C1 witness: a move_piece has just unblocked one slider's ray (the square it
\* left is attacked by a slider) and blocked another's (so is the square it
\* reached).
SliderRaysReroutedByMove ==
  /\ last.op = "move_piece"
  /\ data.panic = NoPanic
  /\ (data.bitlist[last.from] \cap Sliders(data)) # {}
  /\ (data.bitlist[last.dest] \cap Sliders(data)) \ {last.index} # {}

\* The attack set of every square is the set of live identities whose piece
\* attacks the square.
PatternHolds(d, pos, bitlist) ==
  LET live == {id \in PieceIndices : d.piecelist[id] # None}
  IN \A dest \in Squares :
       bitlist[dest] = {id \in live : RefAttacksFrom(pos, d.piecelist[id], dest)}

\* C4: after rebuild_attacks on a consistent placement, an identity is in the
\* attack set of a square iff its piece attacks that square by the pattern of
\* its type: pawns their two forward diagonals, knights and kings their step
\* squares, sliders each ray up to and including the first occupied square.
RebuildMatchesChessPattern ==
  data.panic = NoPanic =>
    PatternHolds(data, Mailbox(data), rebuild_attacks(data).bitlist)

\* C4 witness: rebuild_attacks has just run on a placement where a slider's
\* ray ends on an occupied square that is not the edge of the board.
RebuiltWithBlockedRay ==
  /\ last.op = "rebuild_attacks"
  /\ data.panic = NoPanic
  /\ \E id \in Sliders(data), s \in Squares :
       /\ has_piece(data, s)
       /\ id \in data.bitlist[s]
       /\ travel(s, direction(data.piecelist[id], s)) # None
       /\ id \notin data.bitlist[travel(s, direction(data.piecelist[id], s))]

\* C5: after every add_piece, remove_piece, move_piece and make, the square
\* index and the piece list are inverse partial maps: index[sq] = id iff
\* piecelist[id] = sq, that is, the identity on a square is listed on that
\* square and the square of an identity holds that identity.
IndexAndPiecelistInverse ==
  /\ data.panic = NoPanic
  /\ \A sq \in Squares :
       /\ data.index[sq] \in PieceIndices \cup {None}
       /\ data.index[sq] # None => data.piecelist[data.index[sq]] = sq
  /\ \A id \in PieceIndices :
       /\ data.piecelist[id] \in Squares \cup {None}
       /\ data.piecelist[id] # None => data.index[data.piecelist[id]] = id

\* C5 witness: a move_piece has just moved an identity, while another piece
\* stays where it was.
MovedAmongOthers ==
  /\ last.op = "move_piece"
  /\ data.index[last.dest] = last.index
  /\ data.piecelist[last.index] = last.dest
  /\ Cardinality(pieces(data)) >= 2

\* C2: generate emits exactly the strictly legal moves of the position, each
\* exactly once.
GenerateExactlyLegal ==
  CanGenerate =>
    /\ Generated = RefLegalMoves(board)
    /\ Cardinality(Generated) = Len(generate(board))

\* A pawn push onto the last rank emitted as one Normal move, read as the four
\* promotions it stands for.
AsPromotions(b, m) ==
  IF m.kind = "Normal" /\ piece_from_square(b.data, m.from) = "Pawn"
     /\ is_relative_eighth(RankOf(m.dest), b.side)
  THEN {Move_new(m.from, m.dest, "Promotion", p) : p \in PromotionPieces}
  ELSE {m}

\* C2, the extent of the divergence: but for the pawn pushes of C8, what
\* generate emits is exactly the strictly legal moves, each once.
GenerateLegalButForBlockingPromotions ==
  CanGenerate =>
    /\ UNION {AsPromotions(board, m) : m \in Generated} = RefLegalMoves(board)
    /\ Cardinality(Generated) = Len(generate(board))

\* C3: the make of a generated move leaves the king of the side that moved
\* unattacked (illegal() is false) and gives the move to the other side.
MakeLeavesMoverSafe ==
  [][last'.op = "make" =>
       /\ ~illegal(board')
       /\ ~RefInCheck(Mailbox(data'), side)
       /\ side' = OtherColour(side)]_vars

\* C3 witness: a generated capture of a rook was made and the mover's king is
\* not attacked.
RookCapturedSafely ==
  /\ last.op = "make"
  /\ data.panic = NoPanic
  /\ ~illegal(board)
  /\ last.kind = "Capture"
  /\ piece_from_square(data, last.dest) = "Rook"

\* C6: from from_fen of a legal position, through makes of generated moves,
\* no consistency assertion of the four tables fires (nor any other abort).
NoAssertionFires == data.panic = NoPanic

\* C6 witness: a promotion was made, which removes a piece from all four
\* tables and adds one to them.
PromotionMade ==
  /\ last.op = "make"
  /\ last.kind = "Promotion"
  /\ data.panic = NoPanic

\* C7: after a Promotion or CapturePromotion, the identity on dest is the one
\* the pawn had on from, now classified as the promotion piece.
PromotionKeepsIdentity ==
  (last.op = "make" /\ last.kind \in {"Promotion", "CapturePromotion"}
     /\ data.panic = NoPanic) =>
    /\ data.index[last.dest] = last.index
    /\ piece_from_bit(data, last.index) = last.prom

PawnMovesToLastRank(b) ==
  {m \in Range(generate(b)) :
     piece_from_square(b.data, m.from) = "Pawn"
       /\ is_relative_eighth(RankOf(m.dest), b.side)}

CountOf(v, m) == Cardinality({i \in 1..Len(v) : v[i] = m})

\* C8: every pawn move generate emits onto the mover's relative eighth rank
\* has kind Promotion or CapturePromotion and a promotion piece, and comes as
\* exactly four moves, one per promotion piece.
PromotionsComeInFours ==
  CanGenerate =>
    \A m \in PawnMovesToLastRank(board) :
      /\ m.kind \in {"Promotion", "CapturePromotion"}
      /\ m.prom \in PromotionPieces
      /\ \A p \in PromotionPieces :
           CountOf(generate(board), [m EXCEPT !.prom = p]) = 1
      /\ Cardinality({n \in PawnMovesToLastRank(board) :
                        n.from = m.from /\ n.dest = m.dest}) = 4

CaptureKinds == {"Capture", "CapturePromotion", "EnPassant"}

\* C9: generate_captures emits exactly the moves of generate whose kind is
\* Capture, CapturePromotion or EnPassant, in check or not.
CapturesAreCaptureSubset ==
  CanGenerate =>
    Range(generate_captures(board)) = {m \in Generated : m.kind \in CaptureKinds}

\* C9, the extent of the divergence: when the side to move is not in check,
\* generate_captures emits exactly the capturing moves of generate.
CapturesAgreeOutOfCheck ==
  (CanGenerate /\ attacks_to(data, KingSquare, OtherColour(side)) = {}) =>
    Range(generate_captures(board)) = {m \in Generated : m.kind \in CaptureKinds}

KingsideRight == IF side = White THEN castle[1] ELSE castle[3]

KingsideCastleEmitted ==
  \E m \in Generated :
    m.kind = "Castle" /\ m.from = KingSquare /\ m.dest = KingSquare + 2

KingsideCastleAllowed(pos) ==
  /\ KingsideRight
  /\ ~RefAttacked(pos, KingSquare, OtherColour(side))
  /\ \A s \in {KingSquare + 1, KingSquare + 2} :
       pos[s].piece = NoPiece /\ ~RefAttacked(pos, s, OtherColour(side))

\* C10: generate emits the kingside Castle move (king two squares east) iff
\* the side to move has the kingside right, its king is not attacked, and the
\* two squares east of the king are empty and not attacked.
KingsideCastleIffAllowed ==
  CanGenerate => (KingsideCastleEmitted <=> KingsideCastleAllowed(Mailbox(data)))

\* C10 witness: after a move, the side to move has the kingside right and
\* generate emits the castle.
KingsideCastleOffered ==
  CanGenerate /\ last.op = "make" /\ KingsideRight /\ KingsideCastleEmitted

(***************************************************************************)
(* Castling with all four rights: perft from a position where both sides   *)
(* have both rooks at home and nothing between them and the king.          *)
(***************************************************************************)

InitCastle == InitFrom({FenCastleBoth}, "perft")

SpecCastle == InitCastle /\ [][Next]_vars

QueensideRight == IF side = White THEN castle[2] ELSE castle[4]

QueensideCastleEmitted ==
  \E m \in Generated :
    m.kind = "Castle" /\ m.from = KingSquare /\ m.dest = KingSquare - 2

QueensideCastleAllowed(pos) ==
  /\ QueensideRight
  /\ ~RefAttacked(pos, KingSquare, OtherColour(side))
  /\ \A s \in {KingSquare - 1, KingSquare - 2, KingSquare - 3} : pos[s].piece = NoPiece
  /\ \A s \in {KingSquare - 1, KingSquare - 2} : ~RefAttacked(pos, s, OtherColour(side))

\* C11: generate emits the queenside Castle move (king two squares west) iff
\* the side to move has the queenside right, its king is not attacked, the
\* three squares west of the king are empty and the two the king passes over
\* are not attacked; an attack on the third square west does not matter.
QueensideCastleIffAllowed ==
  CanGenerate => (QueensideCastleEmitted <=> QueensideCastleAllowed(Mailbox(data)))

\* C11 witness: after a move, the queenside castle is emitted although an
\* enemy piece attacks the third square west of the king.
QueensideCastleOverAttackedSquare ==
  /\ CanGenerate
  /\ last.op = "make"
  /\ QueensideCastleEmitted
  /\ RefAttacked(Mailbox(data), KingSquare - 3, OtherColour(side))

\* The rights make leaves, as the rule states them: the mover's king leaving
\* e1 or e8 clears both rights of its colour, a move from or to a corner
\* clears the right of that corner, every other right keeps its value.
RightsAfter(rights, from, dest) ==
  <<IF from = 4 \/ from = 7 \/ dest = 7 THEN FALSE ELSE rights[1],
    IF from = 4 \/ from = 0 \/ dest = 0 THEN FALSE ELSE rights[2],
    IF from = 60 \/ from = 63 \/ dest = 63 THEN FALSE ELSE rights[3],
    IF from = 60 \/ from = 56 \/ dest = 56 THEN FALSE ELSE rights[4]>>

\* C12: make(m) clears both rights of a colour when m.from is e1 or e8, the
\* right of a corner when m.from or m.dest is a1, h1, a8 or h8, and leaves
\* every other right as it was.
MakeUpdatesCastlingRights ==
  [][last'.op = "make" => castle' = RightsAfter(castle, last'.from, last'.dest)]_vars

\* C12 witness: a rook was captured on its corner by a rook from the opposite
\* corner, which cost each side the right of that file and left the other two.
RookTakenOnCorner ==
  /\ last.op = "make"
  /\ last.kind = "Capture"
  /\ last.from \in {0, 7, 56, 63}
  /\ last.dest \in {0, 7, 56, 63}
  /\ Cardinality({k \in 1..4 : castle[k]}) = 2

\* C13: after make(m) the en-passant target is set exactly when m is a
\* DoublePush, and is then the square the pawn passed over: one step forward
\* of m.from, directly behind the pawn on m.dest; after every other kind of
\* move it is None, so no target outlives one ply.
EpSetOnlyByDoublePush ==
  [][last'.op = "make" =>
       IF last'.kind = "DoublePush"
       THEN /\ ep' \in Squares
            /\ ep' = last'.from + RefForward(side)
            /\ ep' = last'.dest - RefForward(side)
       ELSE ep' = None]_vars

\* C13 witness: a DoublePush was made and left its target.
DoublePushLeftTarget ==
  last.op = "make" /\ last.kind = "DoublePush" /\ ep \in Squares

\* The pawns of the side to move that attack the en-passant target and are
\* flagged in enpassant_pinned.
EpPinnedCapturers ==
  IF ep = None THEN {}
  ELSE attacks_to(data, ep, side) \cap pawns(data)
         \cap discover_pinned_pieces(board).enpassant_pinned

\* C14: neither generate nor generate_captures emits an EnPassant move of a
\* pawn flagged in enpassant_pinned, in check or out of it.
NoEnPassantByPinnedPawn ==
  CanGenerate =>
    \A m \in Generated \cup Range(generate_captures(board)) :
      m.kind = "EnPassant" =>
        piece_index_at(data, m.from) \notin discover_pinned_pieces(board).enpassant_pinned

\* C14 witness: after a double push, a pawn of the side to move attacks the
\* target and is flagged in enpassant_pinned.
EpCapturerPinned ==
  CanGenerate /\ last.op = "make" /\ last.kind = "DoublePush" /\ EpPinnedCapturers # {}

\* The king is in check by the pawn that has just made a double push, and
\* generate offers its capture en passant.
EpCaptureOfChecker ==
  /\ CanGenerate
  /\ last.op = "make" /\ last.kind = "DoublePush"
  /\ attacks_to(data, KingSquare, OtherColour(side)) = {last.index}
  /\ \E m \in Generated : m.kind = "EnPassant"

(***************************************************************************)
(* The client "fen": Board::from_fen on well-formed and malformed texts.   *)
(***************************************************************************)

\* Board::from_fen: CString::new(fen).expect(..) aborts on a NUL byte, then
\* from_fen_bytes on the bytes.
from_fen(text) ==
  IF \E i \in 1..Len(text) : text[i] = 0
  THEN [status |-> "panic", board |-> Board_new]
  ELSE from_fen_bytes(text)

\* The position of the first and of the last byte of the k-th field of a
\* text whose fields are separated by single spaces.
FieldStart(text, k) ==
  IF k = 1 THEN 1
  ELSE 1 + CHOOSE i \in 1..Len(text) :
             text[i] = 32 /\ Cardinality({j \in 1..(i - 1) : text[j] = 32}) = k - 2

FieldEnd(text, k) == FieldStart(text, k + 1) - 2

\* A piece letter of the placement field replaced by x or by ?.
UnknownPieceLetter(text) ==
  {[text EXCEPT ![i] = c] :
     i \in {j \in 1..FieldEnd(text, 1) : text[j] \notin (48..57) \cup {47}},
     c \in {120, 63}}

\* The side field replaced by x, W or -.
BadSide(text) == {[text EXCEPT ![FieldStart(text, 2)] = c] : c \in {120, 87, 45}}

\* The first byte of the castling field replaced by x or 1.
BadCastle(text) == {[text EXCEPT ![FieldStart(text, 3)] = c] : c \in {120, 49}}

\* The file of the en-passant field replaced by x, i or 3, or its rank by 9,
\* 0 or x.
BadEp(text) ==
  {[text EXCEPT ![FieldStart(text, 4)] = c] : c \in {120, 105, 51}}
    \cup (IF FieldEnd(text, 4) > FieldStart(text, 4)
          THEN {[text EXCEPT ![FieldEnd(text, 4)] = c] : c \in {57, 48, 120}}
          ELSE {})

\* The text cut before the end of its en-passant field.
Truncated(text) == {SubSeq(text, 1, n) : n \in 0..(FieldEnd(text, 4) - 1)}

WellFormedFens == StartFens \cup {FenSliders, FenCastleBoth, FenInitial}

BaseFens == {FenEnPassant, FenCastleBoth}

PlacementOrSideMalformed == UNION {UnknownPieceLetter(t) \cup BadSide(t) : t \in BaseFens}

MalformedFens ==
  PlacementOrSideMalformed \cup UNION {BadCastle(t) \cup BadEp(t) \cup Truncated(t) : t \in BaseFens}

FenInputs == WellFormedFens \cup MalformedFens \cup {FenSeventeen}

InitFen ==
  /\ fen \in FenInputs
  /\ parsed = "pending"
  /\ data = BoardData_new
  /\ side = White
  /\ castle = <<FALSE, FALSE, FALSE, FALSE>>
  /\ ep = None
  /\ client = "fen"
  /\ last = NoMove
  /\ ply = 0
  /\ steps = 0
  /\ count = NoCount
  /\ score = 0

\* What the caller of from_fen holds afterwards.
FromFenResult(r) ==
  /\ parsed' = r.status
  /\ data' = r.board.data
  /\ side' = r.board.side
  /\ castle' = r.board.castle
  /\ ep' = r.board.ep
  /\ last' = [NoMove EXCEPT !.op = "from_fen"]

\* Board::from_fen(fen)
FromFen ==
  /\ client = "fen"
  /\ parsed = "pending"
  /\ FromFenResult(from_fen(fen))
  /\ UNCHANGED <<client, ply, steps, fen, count, score>>

NextFen == FromFen

SpecFen == InitFen /\ [][NextFen]_vars

FenCalled == client = "fen" /\ last.op = "from_fen"

\* C15: from_fen returns None, and does not abort, on every malformed text:
\* an unknown piece letter, a side other than w or b, a malformed castling
\* field, a malformed en-passant field, a text that ends before its fields do.
MalformedFenGivesNone ==
  (FenCalled /\ fen \in MalformedFens) => parsed = "none"

\* C15, the extent of the divergence: an unknown piece letter and a wrong side
\* give None, and the well-formed texts give a board.
BadPlacementOrSideGivesNone ==
  /\ (FenCalled /\ fen \in PlacementOrSideMalformed) => parsed = "none"
  /\ (FenCalled /\ fen \in WellFormedFens) => parsed = "ok"

\* C16: from_fen returns None on a placement field with more than 16 pieces
\* of one colour.
TooManyPiecesGivesNone ==
  (FenCalled /\ fen = FenSeventeen) => parsed = "none"

(***************************************************************************)
(* Populations.                                                            *)
(***************************************************************************)

LiveOf(colour) == {id \in mask_from_colour(colour) : data.piecelist[id] # None}

KingsOf(colour) == {id \in LiveOf(colour) : Piecemask_piece(data.piecemask, id) = "King"}

OnBoard(pos, colour) == {s \in Squares : pos[s].piece # NoPiece /\ pos[s].colour = colour}

PopulationOf(pos, colour) ==
  /\ Cardinality(OnBoard(pos, colour)) <= 16
  /\ Cardinality({s \in OnBoard(pos, colour) : pos[s].piece = "King"}) = 1

\* C17: in every position reached from a legal FEN by make of generated
\* moves each colour has at most 16 live identities and exactly one king, on
\* the board and in the piece list, and no generated move takes a king.
PopulationsAndKings ==
  client = "perft" =>
    /\ \A c \in {White, Black} :
         /\ Cardinality(LiveOf(c)) <= 16
         /\ Cardinality(KingsOf(c)) = 1
         /\ PopulationOf(Mailbox(data), c)
    /\ CanGenerate => \A m \in Generated : Mailbox(data)[m.dest].piece # "King"

\* C17 witness: a pawn has taken a piece and promoted, and both kings stand.
KingsStandAfterCapturePromotion ==
  /\ last.op = "make"
  /\ last.kind = "CapturePromotion"
  /\ \A c \in {White, Black} : Cardinality(KingsOf(c)) = 1

(***************************************************************************)
(* Piece list, piece mask and the colour halves.                           *)
(***************************************************************************)

\* C18: after every mutation an identity has a square in the piece list
\* exactly if the piece mask gives it one of the six piece types, and an
\* identity is in the half of the colour it was added with: slots 0-15 for
\* white, 16-31 for black.
PiecelistIffMaskClassifies ==
  data.panic = NoPanic =>
    /\ \A id \in PieceIndices :
         /\ (data.piecelist[id] # None) <=> (Piecemask_piece(data.piecemask, id) # NoPiece)
         /\ (data.piecelist[id] # None) <=> (id \in Piecemask_occupied(data.piecemask))
    /\ last.op = "add_piece" =>
         /\ last.index \in mask_from_colour(last.colour)
         /\ data.piecelist[last.index] = last.dest
         /\ Piecemask_piece(data.piecemask, last.index) = last.prom
    /\ (last.op = "make" /\ last.kind \in {"Promotion", "CapturePromotion"}) =>
         /\ data.index[last.dest] \in mask_from_colour(last.colour)
         /\ Piecemask_piece(data.piecemask, data.index[last.dest]) = last.prom

\* C18 witness: a piece was added into a slot that a removal had freed, below
\* a slot of the same colour that is still live.
SlotReusedAfterRemoval ==
  /\ last.op = "add_piece"
  /\ data.panic = NoPanic
  /\ steps >= 2
  /\ \E id \in mask_from_colour(last.colour) : id > last.index /\ data.piecelist[id] # None

(***************************************************************************)
(* No piece attacks the square it stands on.                               *)
(***************************************************************************)

\* C19: no live identity is in the attacker set of its own square, and
\* neither the assertion that ends move_piece nor the assertion
\* dest != square of update_attacks fails.
NoPieceAttacksOwnSquare ==
  /\ data.panic \notin {"piece cannot attack itself", "debug_assert dest != square"}
  /\ data.panic = NoPanic =>
       \A id \in PieceIndices :
         data.piecelist[id] # None => id \notin data.bitlist[data.piecelist[id]]

\* C19 witness: move_piece took a slider along one of its own rays, so that
\* it attacked its new square before the move and attacks its old one after.
SliderMovedAlongOwnRay ==
  /\ last.op = "move_piece"
  /\ data.panic = NoPanic
  /\ data.piecelist[last.index] = last.dest
  /\ Piecemask_piece(data.piecemask, last.index) \in {"Bishop", "Rook", "Queen"}
  /\ last.index \in data.bitlist[last.from]

(***************************************************************************)
(* perft from the standard starting position.                              *)
(***************************************************************************)

RECURSIVE perft(_, _)
RECURSIVE PerftEach(_, _, _, _)

\* for m in moves { let board = board.make(m); count += perft(&board, depth - 1) }
PerftEach(b, moves, i, depth) ==
  IF i > Len(moves) THEN 0
  ELSE perft(make(b, moves[i]), depth - 1) + PerftEach(b, moves, i + 1, depth)

\* perft(board, depth).  The count is a u64; at the depths taken here it stays
\* far below 2^31, so no sum wraps.
perft(b, depth) ==
  IF depth = 0 THEN 1
  ELSE IF depth = 1 THEN Len(generate(b))
       ELSE PerftEach(b, generate(b), 1, depth)

\* The depths perft_test1 is held to here, counted from the starting position.
PerftDepths == 0..3

InitStart == InitFrom({FenInitial}, "perft")

\* perft(&board, depth) on the position reached, for a depth that keeps the
\* plies from the first position within depths; the caller then holds the
\* count and makes no further call.
PerftWithin(depths) ==
  /\ client = "perft"
  /\ data.panic = NoPanic
  /\ \E depth \in depths :
       /\ ply + depth \in depths
       /\ count' = [depth |-> depth, nodes |-> perft(board, depth)]
  /\ client' = "done"
  /\ last' = [NoMove EXCEPT !.op = "perft"]
  /\ UNCHANGED <<data, side, castle, ep, ply, steps, fen, parsed, score>>

Perft == PerftWithin(PerftDepths)

NextStart == Make \/ Perft

SpecStart == InitStart /\ [][NextStart]_vars

\* C20: perft from the standard starting position is 20 at depth 1, 400 at
\* depth 2 and 8902 at depth 3.
PerftOfStartingPosition ==
  (last.op = "perft" /\ ply = 0 /\ fen = FenInitial) =>
    /\ count.depth = 1 => count.nodes = 20
    /\ count.depth = 2 => count.nodes = 400
    /\ count.depth = 3 => count.nodes = 8902

\* C20 witness: perft has returned from depth 3 on the starting position.
PerftDepthThreeCounted ==
  /\ last.op = "perft"
  /\ ply = 0
  /\ fen = FenInitial
  /\ count.depth = 3
  /\ count.nodes > 0

(***************************************************************************)
(* perft from the position with the pawns pinned along the king's rank.    *)
(***************************************************************************)

\* The depths perft is held to from that position.
RankPinDepths == 0..4

InitRankPin == InitFrom({FenRankPin}, "perft")

PerftRankPin == PerftWithin(RankPinDepths)

NextRankPin == Make \/ PerftRankPin

SpecRankPin == InitRankPin /\ [][NextRankPin]_vars

\* C21: perft from 8/2p5/3p4/KP5r/1R3p1k/8/4P1P1/8 w - - 0 1 is 14 at depth
\* 1, 191 at depth 2, 2812 at depth 3 and 43238 at depth 4.
PerftOfRankPinPosition ==
  (last.op = "perft" /\ ply = 0 /\ fen = FenRankPin) =>
    /\ count.depth = 1 => count.nodes = 14
    /\ count.depth = 2 => count.nodes = 191
    /\ count.depth = 3 => count.nodes = 2812
    /\ count.depth = 4 => count.nodes = 43238

\* C21 witness: perft has returned from depth 4 on that position.
PerftDepthFourCounted ==
  /\ last.op = "perft"
  /\ ply = 0
  /\ fen = FenRankPin
  /\ count.depth = 4
  /\ count.nodes > 2812

(***************************************************************************)
(* Two or more checkers.                                                   *)
(***************************************************************************)

InitChecks == InitFrom({FenDoubleCheck, FenDoubleCheckXray, FenTripleCheck}, "perft")

SpecChecks == InitChecks /\ [][Next]_vars

\* The enemy pieces that attack the king of the side to move.
Checkers == attacks_to(data, KingSquare, OtherColour(side))

\* The square one step past k on the line from a square through k, None if
\* the two are not on one line or the step leaves the board.
RefBehind(from, k) ==
  LET df == FileOf(k) - FileOf(from)
      dr == RankOf(k) - RankOf(from)
      f2 == FileOf(k) + Sgn(df)
      r2 == RankOf(k) + Sgn(dr)
  IN IF from = k \/ ~(df = 0 \/ dr = 0 \/ Abs(df) = Abs(dr)) THEN None
     ELSE IF f2 \in 0..7 /\ r2 \in 0..7 THEN r2 * 8 + f2 ELSE None

\* The squares directly behind the king on the ray of a checking slider.
XraySquares ==
  {RefBehind(data.piecelist[id], KingSquare) :
     id \in {c \in Checkers : Piecemask_piece(data.piecemask, c) \in {"Bishop", "Rook", "Queen"}}}
    \ {None}

OnlyKingMovesOffXray ==
  \A m \in Generated : m.from = KingSquare /\ m.dest \notin XraySquares

\* C22: with two or more checkers, three or more included, generate emits
\* only moves of the king, and none onto the square directly behind the king
\* on the ray of a checking slider.
ManyCheckersOnlyKingMoves ==
  (CanGenerate /\ Cardinality(Checkers) >= 2) => OnlyKingMovesOffXray

\* C22, the extent of the divergence: with exactly two checkers the moves are
\* king moves off the x-ray squares, and they are the legal moves.
TwoCheckersOnlyKingMoves ==
  (CanGenerate /\ Cardinality(Checkers) = 2) =>
    /\ OnlyKingMovesOffXray
    /\ Generated = RefLegalMoves(board)

\* A double check by a slider with the square behind the king on the board
\* and otherwise free for the king.
DoubleCheckWithXraySquare ==
  /\ CanGenerate
  /\ Cardinality(Checkers) = 2
  /\ \E s \in XraySquares :
       /\ ~has_piece(data, s)
       /\ attacks_to(data, s, OtherColour(side)) = {}

(***************************************************************************)
(* The order of the first two steps of move_piece.                         *)
(***************************************************************************)

\* move_piece with its first two calls exchanged: update_sliders(from_square,
\* true) before update_attacks(from_square, piece_index, piece, false).
MovePieceAt_Swapped(d, piece_index, piece, from_square, to_square) ==
  AssertNoSelfAttack(
    update_sliders(
      update_attacks(
        PieceIndexArray_move_piece(
          Piecelist_move_piece(
            update_attacks(update_sliders(d, from_square, TRUE),
                           from_square, piece_index, piece, FALSE),
            piece_index, to_square),
          piece_index, from_square, to_square),
        to_square, piece_index, piece, TRUE),
      to_square, FALSE),
    piece_index, to_square)

move_piece_Swapped(d, from_square, to_square) ==
  IF d.panic # NoPanic THEN d
  ELSE IF d.index[from_square] = None
       THEN Fail(d, "attempted to move piece from empty square")
       ELSE IF piece_from_bit(d, d.index[from_square]) = NoPiece
            THEN Fail(d, "piece index corresponds to invalid piece")
            ELSE MovePieceAt_Swapped(d, d.index[from_square],
                                     piece_from_bit(d, d.index[from_square]),
                                     from_square, to_square)

\* The two orders give different boards, or one of them aborts, for this
\* board and move.
OrdersDiffer(d, from_square, to_square) ==
  move_piece_Swapped(d, from_square, to_square) # move_piece(d, from_square, to_square)

\* The boards of the well-formed positions.
ParsedBoards == {from_fen_bytes(text).board.data : text \in WellFormedFens \cup {FenRankPin}}

\* C23 as the text has it: for some consistent position and move, the
\* exchanged order gives another attack table than the prescribed one, or
\* trips an assertion.
SwappedOrderDiffersSomewhere ==
  \E d \in ParsedBoards : \E from_square \in Squares, to_square \in Squares :
    /\ has_piece(d, from_square)
    /\ ~has_piece(d, to_square)
    /\ OrdersDiffer(d, from_square, to_square)

\* C23: every move_piece the data client makes leaves the board that the
\* exchanged order leaves: the first step changes only the attacks of the
\* moving piece, the second only those of the sliders attacking from_square,
\* and both read only the index, the piece list and the mask.
SwappedOrderAgrees ==
  [][last'.op = "move_piece" => data' = move_piece_Swapped(data, last'.from, last'.dest)]_vars

\* C23 witness: a slider was moved off a square that another slider attacks, so
\* both steps had attacks to change.
SliderMovedOffSliderRay ==
  /\ last.op = "move_piece"
  /\ data.panic = NoPanic
  /\ Piecemask_piece(data.piecemask, last.index) \in {"Bishop", "Rook", "Queen"}
  /\ (data.bitlist[last.from] \cap Sliders(data)) \ {last.index} # {}

(***************************************************************************)
(* Pins.                                                                   *)
(***************************************************************************)

InitPins == InitFrom({FenPins, FenPin, FenEnPassantPin, FenRankPin}, "perft")

SpecPins == InitPins /\ [][Next]_vars

\* The compass direction from one square to another, NoDir if they are not
\* on one rank, file or diagonal.
RefCompass(from, dest) ==
  LET df == FileOf(dest) - FileOf(from)
      dr == RankOf(dest) - RankOf(from)
  IN IF from = dest \/ ~(df = 0 \/ dr = 0 \/ Abs(df) = Abs(dr)) THEN NoDir
     ELSE CASE Sgn(df) = 0 /\ Sgn(dr) = 1 -> "North"
            [] Sgn(df) = 1 /\ Sgn(dr) = 1 -> "NorthEast"
            [] Sgn(df) = 1 /\ Sgn(dr) = 0 -> "East"
            [] Sgn(df) = 1 /\ Sgn(dr) = 0 - 1 -> "SouthEast"
            [] Sgn(df) = 0 /\ Sgn(dr) = 0 - 1 -> "South"
            [] Sgn(df) = 0 - 1 /\ Sgn(dr) = 0 - 1 -> "SouthWest"
            [] Sgn(df) = 0 - 1 /\ Sgn(dr) = 0 -> "West"
            [] OTHER -> "NorthWest"

\* An enemy slider on a whose line to the king on k is one its type moves along.
RefSliderTowards(pos, colour, a, k) ==
  /\ pos[a].colour = OtherColour(colour)
  /\ RefCompass(a, k) # NoDir
  /\ IF FileOf(a) = FileOf(k) \/ RankOf(a) = RankOf(k)
     THEN pos[a].piece \in {"Rook", "Queen"}
     ELSE pos[a].piece \in {"Bishop", "Queen"}

\* The occupied squares strictly between a and k.
RefBlockers(pos, a, k) == {s \in RefBetween(a, k) : pos[s].piece # NoPiece}

\* The friendly piece on s is the only piece between some such slider and the
\* king, and the slider looks at the king along dir.
RefPinned(pos, colour, k, s, dir) ==
  \E a \in Squares :
    /\ RefSliderTowards(pos, colour, a, k)
    /\ RefCompass(a, k) = dir
    /\ RefBlockers(pos, a, k) = {s}
    /\ pos[s].colour = colour

PinsAre(pos, colour, k, d, pins) ==
  \A id \in PieceIndices :
    /\ pins[id] \in CompassDirections \cup {NoDir}
    /\ \A dir \in CompassDirections :
         (pins[id] = dir) <=> (d.piecelist[id] # None /\ RefPinned(pos, colour, k, d.piecelist[id], dir))

\* C24: pins[id] = Some(dir) exactly if an enemy slider looks at the friendly
\* king along dir, a direction its type moves along, and id is a friendly
\* piece that alone stands between the two; with no blocker, with two
\* friendly blockers or with an enemy blocker no pin is recorded.
PinsExactlyTheSoleBlockers ==
  CanGenerate => PinsAre(Mailbox(data), side, KingSquare, data, discover_pinned_pieces(board).pins)

\* The sliders of the other side that look at the king with the given numbers
\* of friendly and enemy pieces between.
SlidersWithBlockers(friendly, enemy) ==
  {a \in Squares :
     /\ RefSliderTowards(Mailbox(data), side, a, KingSquare)
     /\ Cardinality({s \in RefBlockers(Mailbox(data), a, KingSquare) : Mailbox(data)[s].colour = side}) = friendly
     /\ Cardinality({s \in RefBlockers(Mailbox(data), a, KingSquare) : Mailbox(data)[s].colour # side}) = enemy}

\* C24 witness: one position with a pinned piece, with a slider behind two
\* friendly blockers and with a slider behind a friendly and an enemy blocker.
PinnedAndNotPinnedTogether ==
  /\ CanGenerate
  /\ last.op = "make"
  /\ \E id \in PieceIndices : discover_pinned_pieces(board).pins[id] # NoDir
  /\ SlidersWithBlockers(1, 0) # {}
  /\ SlidersWithBlockers(2, 0) # {}
  /\ SlidersWithBlockers(1, 1) # {}

\* The friendly pawn on s and one enemy pawn are the only pieces between the
\* king and an enemy rook or queen on the king's rank.
RefRankPinned(pos, colour, k, s) ==
  \E a \in Squares :
    /\ RefSliderTowards(pos, colour, a, k)
    /\ RankOf(a) = RankOf(k)
    /\ pos[a].piece \in {"Rook", "Queen"}
    /\ s \in RefBlockers(pos, a, k)
    /\ pos[s] = [piece |-> "Pawn", colour |-> colour]
    /\ \E e \in RefBlockers(pos, a, k) :
         /\ pos[e] = [piece |-> "Pawn", colour |-> OtherColour(colour)]
         /\ RefBlockers(pos, a, k) = {s, e}

RankPinsAre(pos, colour, k, d, flagged) ==
  \A id \in PieceIndices :
    (id \in flagged) <=> (d.piecelist[id] # None /\ RefRankPinned(pos, colour, k, d.piecelist[id]))

\* C25: an identity is in enpassant_pinned exactly if it is a friendly pawn
\* that, with one enemy pawn and nothing else, stands between the king and an
\* enemy rook or queen on the king's rank.
RankPinFlagsExactlyThePawnPairs ==
  CanGenerate =>
    RankPinsAre(Mailbox(data), side, KingSquare, data,
                discover_pinned_pieces(board).enpassant_pinned)

\* C25 witness: a pawn of the side to move is flagged.
RankPinFlagged ==
  /\ CanGenerate
  /\ last.op = "make"
  /\ \E id \in discover_pinned_pieces(board).enpassant_pinned :
       /\ id \in mask_from_colour(side)
       /\ Piecemask_piece(data.piecemask, id) = "Pawn"
       /\ RankOf(data.piecelist[id]) = RankOf(KingSquare)

\* try_push_move for the piece on from and each destination: nothing for a
\* pinned piece whose move is off the line of the pin, the move otherwise.
PushesAre(b, pininfo, from) ==
  \A dest \in Squares \ {from} :
    LET pin == pininfo.pins[piece_index_at(b.data, from)]
        pushed == try_push_move(b, from, dest, "Normal", NoPiece, pininfo)
        along == pin \in {RefCompass(from, dest), RefCompass(dest, from)}
    IN /\ pin = NoDir => pushed = <<Move_new(from, dest, "Normal", NoPiece)>>
       /\ pin # NoDir =>
            /\ pushed # <<>> => along
            /\ RefCompass(from, dest) = NoDir => pushed = <<>>
            /\ along => pushed = <<Move_new(from, dest, "Normal", NoPiece)>>

\* C26: try_push_move appends the move of a pinned piece only when the move
\* runs along the line of the pin, in either sense; a pinned piece's move
\* along no compass ray (a knight's move) is never appended, and the move of
\* an unpinned piece always is.
PinnedMovesStayOnThePinLine ==
  CanGenerate =>
    \A from \in {s \in Squares : has_piece(data, s) /\ ColourOf(data.index[s]) = side} :
      PushesAre(board, discover_pinned_pieces(board), from)

\* C26 witness: a knight is pinned, and generate has emitted a move of a pinned
\* slider.
PinnedKnightAndPinnedSlider ==
  /\ CanGenerate
  /\ last.op = "make"
  /\ \E id \in knights(data) : discover_pinned_pieces(board).pins[id] # NoDir
  /\ \E m \in Generated :
       /\ piece_index_at(data, m.from) \in Sliders(data)
       /\ discover_pinned_pieces(board).pins[piece_index_at(data, m.from)] # NoDir

(***************************************************************************)
(* The en-passant capture of a checking pawn.                              *)
(***************************************************************************)

InitEvasion == InitFrom({FenEnPassantCheck, FenEnPassantEvasion}, "perft")

SpecEvasion == InitEvasion /\ [][Next]_vars

\* The one checker is a pawn standing directly in front of the en-passant
\* target, seen from the side to move.
CheckedByDoublePushedPawn ==
  /\ CanGenerate
  /\ Cardinality(Checkers) = 1
  /\ ep # None
  /\ \E id \in Checkers :
       /\ Piecemask_piece(data.piecemask, id) = "Pawn"
       /\ data.piecelist[id] = ep - RefForward(side)

\* The en-passant captures due: one for each friendly pawn that attacks the
\* target, is not pinned off the line of the capture and is not flagged.
EnPassantEvasionsDue(pos, pininfo) ==
  {Move_new(s, ep, "EnPassant", NoPiece) :
     s \in {t \in Squares :
              /\ pos[t] = [piece |-> "Pawn", colour |-> side]
              /\ RefAttacksFrom(pos, t, ep)
              /\ pininfo.pins[data.index[t]] \in {NoDir, RefCompass(t, ep), RefCompass(ep, t)}
              /\ data.index[t] \notin pininfo.enpassant_pinned}}

\* C27: in check by one piece, a pawn that has just made a double push,
\* generate emits the en-passant capture for every friendly pawn that attacks
\* the target and is neither pinned off that diagonal nor flagged in
\* enpassant_pinned, and for no other.
EnPassantEvasionsEmitted ==
  CheckedByDoublePushedPawn =>
    {m \in Generated : m.kind = "EnPassant"}
      = EnPassantEvasionsDue(Mailbox(data), discover_pinned_pieces(board))

\* C27 witness: the checking pawn can be taken en passant, and a second pawn
\* that attacks the target is pinned off the diagonal.
EvasionWithPinnedCapturer ==
  /\ CheckedByDoublePushedPawn
  /\ last.op = "make"
  /\ EnPassantEvasionsDue(Mailbox(data), discover_pinned_pieces(board)) # {}
  /\ \E id \in attacks_to(data, ep, side) \cap pawns(data) :
       discover_pinned_pieces(board).pins[id] # NoDir

(***************************************************************************)
(* make of a castling move.                                                *)
(***************************************************************************)

\* The corner the rook leaves and the square it reaches, the one the king
\* crosses, for a king going from from to dest.
RefCastleCorner(from, dest) == IF dest > from THEN 8 * RankOf(from) + 7 ELSE 8 * RankOf(from)
RefCastleCrossed(from, dest) == IF dest > from THEN from + 1 ELSE from - 1

\* The board after the castle: the rook on the crossed square and the king on
\* dest with the identities they had, the corner and the king's home empty,
\* every other square as before.
CastledIndex(index, from, dest) ==
  [s \in Squares |->
     CASE s = RefCastleCrossed(from, dest) -> index[RefCastleCorner(from, dest)]
       [] s = dest -> index[from]
       [] s = from \/ s = RefCastleCorner(from, dest) -> None
       [] OTHER -> index[s]]

\* C28: make of a Castle move takes the rook from the corner on the side of
\* the king's destination to the square the king crosses and the king from
\* m.from to m.dest; afterwards the corner and the king's home are empty, no
\* other piece has moved, ep is None and both castling rights of the mover
\* are cleared.
CastleMovesRookThenKing ==
  [][(last'.op = "make" /\ last'.kind = "Castle") =>
       /\ Mailbox(data)[RefCastleCorner(last'.from, last'.dest)] = [piece |-> "Rook", colour |-> side]
       /\ Mailbox(data)[last'.from] = [piece |-> "King", colour |-> side]
       /\ data'.index = CastledIndex(data.index, last'.from, last'.dest)
       /\ data'.piecemask = data.piecemask
       /\ \A id \in PieceIndices :
            data'.piecelist[id] =
              CASE id = data.index[last'.from] -> last'.dest
                [] id = data.index[RefCastleCorner(last'.from, last'.dest)] ->
                     RefCastleCrossed(last'.from, last'.dest)
                [] OTHER -> data.piecelist[id]
       /\ data'.panic = NoPanic
       /\ ep' = None
       /\ IF side = White THEN ~castle'[1] /\ ~castle'[2] ELSE ~castle'[3] /\ ~castle'[4]]_vars

\* C28 witness: a king has castled to the queenside and its rook stands east
\* of it.
QueensideCastleMade ==
  /\ last.op = "make"
  /\ last.kind = "Castle"
  /\ last.dest < last.from
  /\ Mailbox(data)[last.dest + 1] = [piece |-> "Rook", colour |-> last.colour]
  /\ Mailbox(data)[last.dest] = [piece |-> "King", colour |-> last.colour]

(***************************************************************************)
(* The slot Piecemask::add_piece gives.                                    *)
(***************************************************************************)

InitSlots == InitFrom({FenFullHouse, FenPromoteAfterCapture}, "perft")

SpecSlots == InitSlots /\ [][Next]_vars

PieceNames == {"Pawn", "Knight", "Bishop", "Rook", "Queen", "King"}

\* The identities the mask holds as the given type.
TypeSet(pm, piece) ==
  CASE piece = "Pawn" -> Piecemask_pawns(pm)
    [] piece = "Knight" -> Piecemask_knights(pm)
    [] piece = "Bishop" -> Piecemask_bishops(pm)
    [] piece = "Rook" -> Piecemask_rooks(pm)
    [] piece = "Queen" -> Piecemask_queens(pm)
    [] OTHER -> Piecemask_kings(pm)

\* The slots of the colour's half that hold no piece.
FreeSlots(pm, colour) ==
  {id \in PieceIndices :
     /\ (IF colour = White THEN id < 16 ELSE id >= 16)
     /\ Piecemask_piece(pm, id) = NoPiece}

\* What add_piece gave for the mask: the lowest free slot of the half, held as
\* the given type and as no other, every other slot as before; nothing, and
\* the mask as it was, when the half is full.
AddedAsAsked(pm, piece, colour, r) ==
  IF FreeSlots(pm, colour) = {}
  THEN r.index = None /\ r.mask = pm
  ELSE /\ r.index \in FreeSlots(pm, colour)
       /\ \A id \in FreeSlots(pm, colour) : r.index <= id
       /\ Piecemask_piece(r.mask, r.index) = piece
       /\ \A other \in PieceNames : (r.index \in TypeSet(r.mask, other)) <=> (other = piece)
       /\ \A id \in PieceIndices \ {r.index} :
            Piecemask_piece(r.mask, id) = Piecemask_piece(pm, id)

\* C29: Piecemask::add_piece gives the lowest free slot of the colour's half,
\* never one of the other half, and records the given type for it and no
\* other; with all 16 slots of the colour taken it gives no identity and
\* leaves the masks as they were.
AddPieceTakesLowestFreeSlot ==
  \A piece \in PieceNames, colour \in {White, Black} :
    AddedAsAsked(data.piecemask, piece, colour,
                 Piecemask_add_piece(data.piecemask, piece, colour))

\* C29 witness: after a capture one half is full and the other has a free
\* slot below a taken one.
FullHalfAndFreedSlot ==
  /\ last.op = "make"
  /\ last.kind = "Capture"
  /\ FreeSlots(data.piecemask, last.colour) = {}
  /\ \E id \in FreeSlots(data.piecemask, OtherColour(last.colour)) :
       \E above \in mask_from_colour(OtherColour(last.colour)) :
         above > id /\ Piecemask_piece(data.piecemask, above) # NoPiece

(***************************************************************************)
(* The client "piecelist": Piecelist's operations called directly, on any  *)
(* slot, whatever it holds.                                                *)
(***************************************************************************)

\* Piecelist::get: expects the slot to hold a square.
Piecelist_get(d, piece_index) ==
  IF d.panic # NoPanic THEN d
  ELSE IF d.piecelist[piece_index] = None
       THEN Fail(d, "valid piece index has invalid square")
       ELSE d

\* The slots and the squares the client uses.
ListSlots == {0, 1, 16}
ListSquares == {18, 19, 27}

InitList ==
  /\ data = BoardData_new
  /\ side = White
  /\ castle = <<FALSE, FALSE, FALSE, FALSE>>
  /\ ep = None
  /\ client = "piecelist"
  /\ last = NoMove
  /\ ply = 0
  /\ steps = 0
  /\ count = NoCount
  /\ score = 0
  /\ fen = <<>>
  /\ parsed = "pending"

ListStep ==
  /\ client = "piecelist"
  /\ steps < MaxSteps
  /\ data.panic = NoPanic
  /\ steps' = steps + 1
  /\ UNCHANGED <<side, castle, ep, client, ply, fen, parsed, count, score>>

\* piecelist.get(piece_index)
ListGet ==
  /\ ListStep
  /\ \E piece_index \in ListSlots :
       /\ data' = Piecelist_get(data, piece_index)
       /\ last' = [NoMove EXCEPT !.op = "list_get", !.index = piece_index]

\* piecelist.add_piece(piece_index, square)
ListAdd ==
  /\ ListStep
  /\ \E piece_index \in ListSlots, square \in ListSquares :
       /\ data' = Piecelist_add_piece(data, piece_index, square)
       /\ last' = [NoMove EXCEPT !.op = "list_add", !.index = piece_index, !.dest = square]

\* piecelist.remove_piece(piece_index, square)
ListRemove ==
  /\ ListStep
  /\ \E piece_index \in ListSlots, square \in ListSquares :
       /\ data' = Piecelist_remove_piece(data, piece_index, square)
       /\ last' = [NoMove EXCEPT !.op = "list_remove", !.index = piece_index, !.dest = square]

\* piecelist.move_piece(piece_index, square)
ListMove ==
  /\ ListStep
  /\ \E piece_index \in ListSlots, square \in ListSquares :
       /\ data' = Piecelist_move_piece(data, piece_index, square)
       /\ last' = [NoMove EXCEPT !.op = "list_move", !.index = piece_index, !.dest = square]

NextList == ListGet \/ ListAdd \/ ListRemove \/ ListMove

SpecList == InitList /\ [][NextList]_vars

\* C30: each operation asserts that the slot's occupancy matches it: get,
\* remove and move fail on an absent slot, add fails on an occupied one.
PiecelistOpsAssertOccupancy ==
  [][client = "piecelist" =>
       /\ (last'.op \in {"list_get", "list_remove", "list_move"}
             /\ data.piecelist[last'.index] = None) => data'.panic # NoPanic
       /\ (last'.op = "list_add" /\ data.piecelist[last'.index] # None) =>
            data'.panic # NoPanic]_vars

\* C30, the extent of the divergence: get, remove and add do assert, remove
\* also that the square is the slot's, and they abort in no other case; move
\* writes the square whatever the slot held.
PiecelistAssertsButForMove ==
  [][client = "piecelist" =>
       /\ last'.op = "list_get" =>
            (data'.panic # NoPanic <=> data.piecelist[last'.index] = None)
       /\ last'.op = "list_remove" =>
            (data'.panic # NoPanic <=> data.piecelist[last'.index] # last'.dest)
       /\ last'.op = "list_add" =>
            (data'.panic # NoPanic <=> data.piecelist[last'.index] # None)
       /\ last'.op = "list_move" =>
            data' = [data EXCEPT !.piecelist[last'.index] = last'.dest]]_vars


(***************************************************************************)
(* Identities through Board::make.                                         *)
(***************************************************************************)

\* The kinds of move whose make arm ends in move_piece of the moving piece.
MovingKinds == {"Normal", "DoublePush", "Capture", "EnPassant", "Castle"}

\* The identity a move takes off the board: the one on dest for a Capture,
\* the pawn behind dest for an EnPassant by mover, none otherwise.
RefCaptured(index, m, mover) ==
  CASE m.kind = "Capture" -> index[m.dest]
    [] m.kind = "EnPassant" -> index[IF mover = White THEN m.dest - 8 ELSE m.dest + 8]
    [] OTHER -> None

\* The identities a move carries to another square: the piece on from, and
\* the rook on the corner when castling.
RefMoved(index, m) ==
  {index[m.from]} \cup
    (IF m.kind = "Castle" THEN {index[RefCastleCorner(m.from, m.dest)]} ELSE {})

\* C31: make of a Normal, DoublePush, Capture, EnPassant or Castle move keeps
\* the identity of the moving piece (on dest afterwards) and of the castling
\* rook (on the crossed square afterwards); every identity other than the
\* captured one is still live with the piece type it had (its colour is the
\* half its number lies in) and, unless it is a moved one, on the square it
\* had; the captured identity, and no other, becomes free.
MakeKeepsIdentities ==
  [][(last'.op = "make" /\ last'.kind \in MovingKinds) =>
       LET m == last'
           mover == data.index[m.from]
           captured == RefCaptured(data.index, m, side)
       IN /\ data'.panic = NoPanic
          /\ mover # None
          /\ data'.index[m.dest] = mover
          /\ data'.piecelist[mover] = m.dest
          /\ m.kind = "Castle" =>
               /\ data'.index[RefCastleCrossed(m.from, m.dest)] =
                    data.index[RefCastleCorner(m.from, m.dest)]
               /\ data.index[RefCastleCorner(m.from, m.dest)] \in rooks(data')
          /\ m.kind \in {"Capture", "EnPassant"} => captured \in pieces(data)
          /\ pieces(data') = pieces(data) \ {captured}
          /\ \A id \in pieces(data') :
               /\ piece_from_bit(data', id) = piece_from_bit(data, id)
               /\ data'.index[data'.piecelist[id]] = id
               /\ id \notin RefMoved(data.index, m) =>
                    data'.piecelist[id] = data.piecelist[id]
          /\ captured # None => data'.piecelist[captured] = None]_vars

\* C31 witness: an en-passant capture has been made by a pawn that is not the
\* lowest identity of its side, the capturing pawn stands on dest under the
\* identity it had, and an identity of the other side has become free below
\* a live one.
EnPassantMadeByIdentity ==
  /\ last.op = "make"
  /\ last.kind = "EnPassant"
  /\ data.index[last.dest] = last.index
  /\ last.index \in pawns(data)
  /\ \E free \in mask_from_colour(side), live \in mask_from_colour(side) :
       /\ free < live
       /\ free \notin pieces(data)
       /\ live \in pieces(data)

(***************************************************************************)
(* Square::travel and Square::direction, called on every square.  The      *)
(* client "square" makes one call, on any arguments; last holds the call:  *)
(* for travel the square in from, the direction in kind and the result in  *)
(* dest; for direction the two squares in from and dest and the result in  *)
(* kind.                                                                   *)
(***************************************************************************)

InitSquare ==
  /\ data = BoardData_new
  /\ side = White
  /\ castle = <<FALSE, FALSE, FALSE, FALSE>>
  /\ ep = None
  /\ client = "square"
  /\ last = NoMove
  /\ ply = 0
  /\ steps = 0
  /\ count = NoCount
  /\ score = 0
  /\ fen = <<>>
  /\ parsed = "pending"

\* square.travel(direction)
Travel ==
  /\ client = "square"
  /\ last = NoMove
  /\ \E square \in Squares, dir \in AllDirections :
       last' = [NoMove EXCEPT !.op = "travel", !.from = square, !.kind = dir,
                              !.dest = travel(square, dir)]
  /\ UNCHANGED <<data, side, castle, ep, client, ply, steps, fen, parsed, count, score>>

\* from.direction(dest)
Direction ==
  /\ client = "square"
  /\ last = NoMove
  /\ \E from \in Squares, dest \in Squares :
       last' = [NoMove EXCEPT !.op = "direction", !.from = from, !.dest = dest,
                              !.kind = direction(from, dest)]
  /\ UNCHANGED <<data, side, castle, ep, client, ply, steps, fen, parsed, count, score>>

NextSquare == Travel \/ Direction

SpecSquare == InitSquare /\ [][NextSquare]_vars

\* The files and ranks one step of a direction adds.
RefFileStep(dir) ==
  CASE dir \in {"North", "South"} -> 0
    [] dir \in {"NorthEast", "East", "SouthEast", "NorthNorthEast", "SouthSouthEast"} -> 1
    [] dir \in {"NorthWest", "West", "SouthWest", "NorthNorthWest", "SouthSouthWest"} -> 0 - 1
    [] dir \in {"EastNorthEast", "EastSouthEast"} -> 2
    [] OTHER -> 0 - 2

RefRankStep(dir) ==
  CASE dir \in {"East", "West"} -> 0
    [] dir \in {"North", "NorthEast", "NorthWest", "EastNorthEast", "WestNorthWest"} -> 1
    [] dir \in {"South", "SouthEast", "SouthWest", "EastSouthEast", "WestSouthWest"} -> 0 - 1
    [] dir \in {"NorthNorthEast", "NorthNorthWest"} -> 2
    [] OTHER -> 0 - 2

\* The square steps steps of dir away from square, None if that leaves the
\* board.
RefShifted(square, dir, n) ==
  LET file == FileOf(square) + n * RefFileStep(dir)
      rank == RankOf(square) + n * RefRankStep(dir)
  IN IF file \in 0..7 /\ rank \in 0..7 THEN 8 * rank + file ELSE None

\* C32: for every square and each of the sixteen directions, travel returns
\* the square whose file and rank are those of the start shifted by the
\* direction's offset when both stay within 0..7, and None otherwise: no step
\* wraps around an edge of the board.
TravelIsShiftWithinBoard ==
  last.op = "travel" => last.dest = RefShifted(last.from, last.kind, 1)

\* C32 witness: a knight step from the h-file that an 8x8 sum would wrap to
\* the a-file has returned None, and so has a compass step off the first rank.
TravelOffTheEdge ==
  /\ last.op = "travel"
  /\ last.dest = None
  /\ \/ /\ FileOf(last.from) = 7
        /\ last.kind = "EastNorthEast"
        /\ last.from + to_8x8(last.kind) \in Squares
     \/ /\ RankOf(last.from) = 0
        /\ last.kind = "SouthEast"

\* The second square is one or more steps of dir from the first.
RefReached(from, dir, dest) == \E n \in 1..7 : RefShifted(from, dir, n) = dest

\* The squares are a knight's move apart.
RefKnightApart(from, dest) == \E dir \in KnightDirections : RefShifted(from, dir, 1) = dest

\* C33: for every ordered pair of squares, direction returns a compass
\* direction d exactly when the second square is one or more steps of d from
\* the first; it returns none for equal squares, for squares a knight's move
\* apart and for every other pair not on one rank, file or diagonal; and
\* where it returns d, direction of the swapped pair returns the opposite
\* of d.
DirectionIsTheCompassRay ==
  last.op = "direction" =>
    /\ last.kind \in CompassDirections \cup {NoDir}
    /\ \A dir \in CompassDirections : last.kind = dir <=> RefReached(last.from, dir, last.dest)
    /\ last.from = last.dest => last.kind = NoDir
    /\ RefKnightApart(last.from, last.dest) => last.kind = NoDir
    /\ RefCompass(last.from, last.dest) = NoDir => last.kind = NoDir
    /\ last.kind # NoDir => direction(last.dest, last.from) = opposite(last.kind)

\* C33 witness: direction has answered for two squares whose 8x8 numbers
\* differ by one but which lie on different ranks (h1 and a2), and returned
\* none.
DirectionAcrossTheEdge ==
  /\ last.op = "direction"
  /\ last.from = 7
  /\ last.dest = 8
  /\ last.kind = NoDir

(***************************************************************************)
(* Castling rights along a game.                                           *)
(***************************************************************************)

\* The home square of the king and the corner of the rook of each right, in
\* the order of castle: white kingside, white queenside, black kingside,
\* black queenside.
RightColour == <<White, White, Black, Black>>
RightKingHome == <<e1, e1, e8, e8>>
RightCorner == <<h1, a1, h8, a8>>

\* Every right that is set has the king of its colour at home and a rook of
\* its colour on its corner.
RightsBacked(pos, rights) ==
  \A k \in 1..4 :
    rights[k] =>
      /\ pos[RightKingHome[k]] = [piece |-> "King", colour |-> RightColour[k]]
      /\ pos[RightCorner[k]] = [piece |-> "Rook", colour |-> RightColour[k]]

InitRights == InitFrom({FenCastleBoth, FenTripleCheckCastle, FenKingEnPrise}, "perft")

SpecRights == InitRights /\ [][Next]_vars

\* C34: from a position where every set right has its king at home and its
\* rook on the corner, every position reached by make of generated moves
\* has each right that is still set backed the same way, and neither
\* generate (the unwraps on the king's east and west neighbours) nor make
\* (the rook move of a Castle) has aborted or will abort on it.
SetRightsStayBacked ==
  /\ RightsBacked(Mailbox(data), castle)
  /\ data.panic = NoPanic
  /\ generate_panic(board) = NoPanic

\* C34 witness: white has castled, which cost it both rights, and black,
\* whose king and rooks have not moved, still holds both of its rights.
CastledWhileOtherKeepsRights ==
  /\ last.op = "make"
  /\ last.kind = "Castle"
  /\ last.colour = White
  /\ ~castle[1] /\ ~castle[2]
  /\ castle[3] /\ castle[4]
  /\ RightsBacked(Mailbox(data), castle)

\* C35: castling rights only fall: a right that is false before a make is
\* false after it, so along any sequence of makes a right once false stays
\* false.
CastlingRightsOnlyFall ==
  [][\A k \in 1..4 : ~castle[k] => ~castle'[k]]_vars

\* C35 witness: white castled kingside and lost both rights, black has
\* replied, and both of white's rights are still false.
RightsStillLostAfterReply ==
  /\ ply = 2
  /\ last.op = "make"
  /\ last.colour = Black
  /\ ~castle[1] /\ ~castle[2]
  /\ Mailbox(data)[e1 + 2] = [piece |-> "King", colour |-> White]
  /\ Mailbox(data)[e1 + 1] = [piece |-> "Rook", colour |-> White]

(***************************************************************************)
(* The en-passant square make leaves.                                      *)
(***************************************************************************)

InitEp == InitFrom({FenInitial, FenEnPassantCheck, FenDoublePushBlock}, "perft")

SpecEp == InitEp /\ [][Next]_vars

\* One rank towards the far side of colour, and one rank back.
RefAhead(square, colour) == IF colour = White THEN square + 8 ELSE square - 8
RefBack(square, colour) == IF colour = White THEN square - 8 ELSE square + 8

\* C36: in a position make has produced from a generated move, an en-passant
\* square that is set is empty and on the third rank of the side that has
\* just moved, the square beyond it (that side's fourth rank) holds a pawn
\* of that side, and the square before it (that side's second rank) is
\* empty.
EpSquareLiesBehindItsPawn ==
  (last.op = "make" /\ ep # None) =>
    /\ data.panic = NoPanic
    /\ ep \in Squares
    /\ RankOf(ep) = (IF last.colour = White THEN 2 ELSE 5)
    /\ Mailbox(data)[ep] = EmptySquare
    /\ Mailbox(data)[RefAhead(ep, last.colour)] = [piece |-> "Pawn", colour |-> last.colour]
    /\ Mailbox(data)[RefBack(ep, last.colour)] = EmptySquare

\* C36 witness: black, in check from the rook along its fourth rank, has
\* blocked with the double push d7-d5, which left d6 as the en-passant
\* square.
DoublePushBlockedTheCheck ==
  /\ fen = FenDoublePushBlock
  /\ ply = 1
  /\ last.op = "make"
  /\ last.kind = "DoublePush"
  /\ last.colour = Black
  /\ ep = 43
  /\ Mailbox(data)[35] = [piece |-> "Pawn", colour |-> Black]

(***************************************************************************)
(* Piece counts through Board::make.                                       *)
(***************************************************************************)

\* The live identities of a colour, and its pawns among them.
LiveCount(d, colour) == Cardinality(pieces_of_colour(d, colour))
PawnCount(d, colour) == Cardinality(pieces_of_colour(d, colour) \cap pawns(d))

\* C37: make of a Capture, EnPassant or CapturePromotion lowers the number of
\* live identities of the side not moving by one, make of any other kind
\* leaves it; the mover's number never changes; the mover's number of pawns
\* drops by one on Promotion and CapturePromotion and on no other kind; the
\* other side's number of pawns changes only by a captured pawn.
CountsChangeOnlyByCapture ==
  [][last'.op = "make" =>
       LET mover == side
           other == OtherColour(side)
           taken == IF last'.kind \in CaptureKinds THEN 1 ELSE 0
           promoted == IF last'.kind \in {"Promotion", "CapturePromotion"} THEN 1 ELSE 0
       IN /\ data'.panic = NoPanic
          /\ LiveCount(data', other) = LiveCount(data, other) - taken
          /\ LiveCount(data', mover) = LiveCount(data, mover)
          /\ PawnCount(data', mover) = PawnCount(data, mover) - promoted
          /\ PawnCount(data', other) \in {PawnCount(data, other) - t : t \in 0..taken}]_vars

\* C37 witness: black's only pawn has taken the knight on b1 and promoted:
\* white is down to two pieces of its three, black still has its three and
\* no pawn among them.
CapturePromotionCounted ==
  /\ fen = FenPromoteAfterCapture
  /\ last.op = "make"
  /\ last.kind = "CapturePromotion"
  /\ last.colour = Black
  /\ LiveCount(data, White) = 2
  /\ LiveCount(data, Black) = 3
  /\ PawnCount(data, Black) = 0

(***************************************************************************)
(* add_piece undone by remove_piece.  The data client arranges the pieces  *)
(* of a parsed board with move_piece and then calls add_piece and, on the  *)
(* identity it gave, remove_piece.                                         *)
(***************************************************************************)

InitUndo == InitFrom({FenSliders, FenPins}, "data")

\* data.add_piece(piece, colour, square, true) onto an empty square, with a
\* free slot for the colour, then data.remove_piece(index, true) of the
\* identity now on the square.
AddRemovePiece ==
  /\ client = "data"
  /\ data.panic = NoPanic
  /\ \E piece \in PieceNames, colour \in {White, Black}, square \in Squares :
       /\ ~has_piece(data, square)
       /\ FreeSlots(data.piecemask, colour) # {}
       /\ LET added == add_piece(data, piece, colour, square, TRUE)
          IN /\ data' = remove_piece(added, piece_index_at(added, square), TRUE)
             /\ last' = [NoMove EXCEPT !.op = "add_remove", !.dest = square, !.prom = piece,
                                       !.colour = colour,
                                       !.index = piece_index_at(added, square)]
  /\ client' = "done"
  /\ UNCHANGED <<side, castle, ep, ply, steps, fen, parsed, count, score>>

NextUndo == MovePiece \/ AddRemovePiece

SpecUndo == InitUndo /\ [][NextUndo]_vars

\* C38: add_piece with update onto an empty square followed by remove_piece
\* with update of the identity just given leaves the piece mask, the piece
\* list, the square index and every attacker set as they were, and fires no
\* assertion, whatever the piece type and wherever the square lies.
AddThenRemoveRestores ==
  [][last'.op = "add_remove" => data' = data]_vars

\* C38 witness: a rook was added on a square two sliders attack, one of each
\* colour, and removed again.
SliderAddedOnSliderRaysAndRemoved ==
  /\ last.op = "add_remove"
  /\ last.prom = "Rook"
  /\ data.panic = NoPanic
  /\ ~has_piece(data, last.dest)
  /\ \E w \in Sliders(data), b \in Sliders(data) :
       /\ ColourOf(w) = White
       /\ ColourOf(b) = Black
       /\ {w, b} \subseteq data.bitlist[last.dest]

(***************************************************************************)
(* Eval (src/dorpsgek/src/eval.rs): the piece-square tables, the full      *)
(* evaluation and the incremental one.  Scores are i32 in the source; the  *)
(* tables hold at most 970 and a side has at most 16 pieces, so no sum     *)
(* comes near the width.                                                   *)
(***************************************************************************)

\* params[0..4] and the king's 0.0 of recalculate, in hundredths.
PieceValue(piece) ==
  CASE piece = "Pawn" -> 100
    [] piece = "Knight" -> 300
    [] piece = "Bishop" -> 350
    [] piece = "Rook" -> 500
    [] piece = "Queen" -> 950
    [] OTHER -> 0

\* params[5..8] (rank) and params[9..12] (file) of Eval::new, in hundredths.
RankBonus == <<0 - 10, 0 - 5, 5, 10>>
FileBonus == <<0 - 10, 0 - 5, 5, 10>>

\* bonus of recalculate: rank[square_rank] or rank[7 - square_rank], plus
\* file[square_file] or file[7 - square_file].
Bonus(square) ==
  LET square_rank == square \div 8
      square_file == square % 8
  IN (IF square_rank <= 3 THEN RankBonus[square_rank + 1] ELSE RankBonus[7 - square_rank + 1])
     + (IF square_file <= 3 THEN FileBonus[square_file + 1] ELSE FileBonus[7 - square_file + 1])

\* The pairs of piece and bonus for which the f64 product
\* 100.0 * (piece_value + bonus) lies just below the whole number (such as
\* 114.99999999999999 for the pawn with bonus 0.15), so that the cast to i32
\* truncates to one less.
F64Shortfall ==
  {<<"Pawn", 15>>, <<"Rook", 0 - 15>>, <<"Rook", 10>>, <<"Queen", 0 - 5>>, <<"Queen", 20>>}

\* Eval::recalculate: pst[piece][square] = (100.0 * (piece_value + bonus)) as i32
recalculate ==
  [piece \in PieceNames |->
     [square \in Squares |->
        PieceValue(piece) + Bonus(square)
          - (IF <<piece, Bonus(square)>> \in F64Shortfall THEN 1 ELSE 0)]]

\* Eval::piece_square_value
piece_square_value(pst, piece, square) == pst[piece][square]

\* Square::flip: the square mirrored to the other side's point of view, the
\* same file on the rank counted from the other end.
flip(square) == 8 * (7 - RankOf(square)) + FileOf(square)

\* The loop of Eval::eval over board.pieces().
RECURSIVE EvalEach(_, _, _, _)
EvalEach(pst, d, bits, i) ==
  IF i > Len(bits) THEN 0
  ELSE LET piece == bits[i]
           square == square_of_piece(d, piece)
       IN (IF piece <= 15
           THEN piece_square_value(pst, piece_from_bit(d, piece), square)
           ELSE 0 - piece_square_value(pst, piece_from_bit(d, piece), flip(square)))
          + EvalEach(pst, d, bits, i + 1)

\* Eval::eval: the score from the point of view of the side to move.
eval(pst, b) ==
  LET sum == EvalEach(pst, b.data, BitlistIter(pieces(b.data)), 1)
  IN IF b.side = Black THEN 0 - sum ELSE sum

\* The unwraps of Eval::update_eval that find nothing.
update_eval_aborts(b, m) ==
  \/ piece_from_square(b.data, m.from) = NoPiece
  \/ m.kind \in {"Capture", "CapturePromotion"} /\ piece_from_square(b.data, m.dest) = NoPiece
  \/ m.kind = "Castle" /\ (castle_rook_from(m) = None \/ castle_rook_to(m) = None)
  \/ m.kind = "EnPassant" /\ (b.ep = None \/ relative_south(b.ep, b.side) = None)
  \/ m.kind \in {"Promotion", "CapturePromotion"} /\ m.prom = NoPiece

\* An update_eval that forgets the captured piece.
update_eval_VictimKept(pst, b, m, old_score) ==
  LET from_piece == piece_from_square(b.data, m.from)
      from_pst == piece_square_value(pst, from_piece, m.from)
      dest_pst == piece_square_value(pst, from_piece, m.dest)
  IN CASE m.kind \in {"Normal", "DoublePush", "Capture"} -> 0 - old_score + from_pst - dest_pst
       [] m.kind = "Castle" ->
            0 - old_score + from_pst - dest_pst
              + piece_square_value(pst, "Rook", castle_rook_from(m))
              - piece_square_value(pst, "Rook", castle_rook_to(m))
       [] m.kind = "EnPassant" ->
            0 - old_score + from_pst - dest_pst
              - piece_square_value(pst, "Pawn", relative_south(b.ep, b.side))
       [] m.kind = "Promotion" ->
            0 - old_score + from_pst - piece_square_value(pst, m.prom, m.dest)
       [] OTHER ->
            0 - old_score + from_pst - piece_square_value(pst, m.prom, m.dest)
              - piece_square_value(pst, piece_from_square(b.data, m.dest), m.dest)

\* Eval::update_eval: the score of the position after m, from the point of
\* view of the side then to move.
update_eval(pst, b, m, old_score) ==
  LET from_piece == piece_from_square(b.data, m.from)
      from_pst == piece_square_value(pst, from_piece, m.from)
      dest_pst == piece_square_value(pst, from_piece, m.dest)
  IN CASE m.kind \in {"Normal", "DoublePush"} -> 0 - old_score + from_pst - dest_pst
       [] m.kind = "Capture" ->
            0 - old_score + from_pst - dest_pst
              - piece_square_value(pst, piece_from_square(b.data, m.dest), m.dest)
       [] m.kind = "Castle" ->
            0 - old_score + from_pst - dest_pst
              + piece_square_value(pst, "Rook", castle_rook_from(m))
              - piece_square_value(pst, "Rook", castle_rook_to(m))
       [] m.kind = "EnPassant" ->
            0 - old_score + from_pst - dest_pst
              - piece_square_value(pst, "Pawn", relative_south(b.ep, b.side))
       [] m.kind = "Promotion" ->
            0 - old_score + from_pst - piece_square_value(pst, m.prom, m.dest)
       [] OTHER ->
            0 - old_score + from_pst - piece_square_value(pst, m.prom, m.dest)
              - piece_square_value(pst, piece_from_square(b.data, m.dest), m.dest)

(***************************************************************************)
(* The client "search": it evaluates the root with eval and, down a line,  *)
(* hands each move to update_eval before it makes it (search.rs).          *)
(***************************************************************************)

SearchFens == StartFens \cup {FenCastleBoth}

InitSearch ==
  \E text \in SearchFens :
    LET r == from_fen_bytes(text)
    IN /\ r.status = "ok"
       /\ fen = text
       /\ parsed = "ok"
       /\ data = r.board.data
       /\ side = r.board.side
       /\ castle = r.board.castle
       /\ ep = r.board.ep
       /\ client = "search"
       /\ last = NoMove
       /\ ply = 0
       /\ steps = 0
       /\ count = NoCount
       /\ score = eval(recalculate, r.board)

\* board.generate(&mut moves), then for one of the moves
\* eval.update_eval(board, &m, eval) and board.make(m).
SearchMake ==
  /\ client = "search"
  /\ ply < MaxPly
  /\ data.panic = NoPanic
  /\ IF generate_panic(board) # NoPanic
     THEN /\ data' = Fail(data, generate_panic(board))
          /\ UNCHANGED <<side, castle, ep, score>>
          /\ last' = [NoMove EXCEPT !.op = "generate"]
     ELSE \E m \in Range(generate(board)) :
            IF update_eval_aborts(board, m)
            THEN /\ data' = Fail(data, "update_eval: unwrap on None")
                 /\ UNCHANGED <<side, castle, ep, score>>
                 /\ last' = [NoMove EXCEPT !.op = "update_eval"]
            ELSE /\ MakeResult(m, piece_index_at(data, m.from), make(board, m))
                 /\ score' = update_eval(recalculate, board, m, score)
  /\ ply' = ply + 1
  /\ UNCHANGED <<client, steps, fen, parsed, count>>

NextSearch == SearchMake

SpecSearch == InitSearch /\ [][NextSearch]_vars

\* C39: with the tables recalculate builds, the score carried by update_eval
\* from eval of the root is, after every generated move of every kind and
\* for either side to move, the score eval gives for the position make has
\* produced; update_eval aborts on no generated move.
IncrementalScoreIsEval ==
  client = "search" =>
    /\ data.panic = NoPanic
    /\ score = eval(recalculate, board)

\* C39 witness: black has taken a piece with its pawn and promoted, two plies
\* below the root, and the score has been carried through both moves.
ScoreCarriedThroughCapturePromotion ==
  /\ client = "search"
  /\ ply = 2
  /\ last.op = "make"
  /\ last.kind = "CapturePromotion"
  /\ last.colour = Black
  /\ score # 0
====
